---- MODULE Spec2Model ----
(***************************************************************************)
(* The statement-label table, the open-construct stack and the semantic    *)
(* actions of flang's executable statements (lib/Sema/SemaExecStmt.cpp,    *)
(* lib/Sema/Scope.cpp), driven by the statement parser                     *)
(* (lib/Parse/ParseExec.cpp).                                               *)
(*                                                                         *)
(* A statement is identified by its index in the arena `stmts` (the AST    *)
(* nodes in creation order); 0 is the null statement.  Label expressions   *)
(* are the integers they denote; 0 is "no label".  Construct names and     *)
(* variables are identifiers 1, 2, ...; 0 is "none".                       *)
(***************************************************************************)
EXTENDS Integers, Sequences, FiniteSets, Bags, TLC

\* ------------------------------------------------------------------ bounds
\* Statements created in one program unit.
MaxStmts == 4
\* Statement labels written in the source are 1..MaxLabel.
MaxLabel == 2
\* In the parser's specification a statement starts only while fewer than
\* this many statements have been built in the unit.
MaxParsed == 2
\* Construct names written in the source are 1..MaxName.
MaxName == 2
\* DO variables written in the source are 1..MaxVar.
MaxVar == 2

\* std::numeric_limits<StmtLabelInteger>::max(); the integer type is declared
\* in Scope.h, the model keeps an unsigned 16-bit key.
StmtLabelIntegerMax == 65535

\* Label values written next to the largest key: from one below it to
\* MaxAbove above it.
MaxAbove == 2
WideLabels == (StmtLabelIntegerMax - 1)..(StmtLabelIntegerMax + MaxAbove)

Labels == 1..MaxLabel
LabelOpt == 0..MaxLabel

\* 0 stands for `no construct name`.
Names == 1..MaxName
NameOpt == 0..MaxName

DoVars == 1..MaxVar

VARIABLES
  stmts,                         \* the AST nodes, by creation order
  StmtList,                      \* BlockStmtBuilder: the body under construction
  ControlFlowStack,              \* BlockStmtBuilder: the open constructs
  StmtLabelDeclsInScope,         \* StmtLabelScope: key -> declaring statement
  ForwardStmtLabelDeclsInScope,  \* StmtLabelScope: pending forward references
  LoopVars,                      \* Sema: the active DO variables
  Diags,                         \* diagnostics reported by the last step
  Actions,                       \* semantic actions invoked by the last step
  last,                          \* the last step: what was parsed and its result
  phase,                         \* "body" while a unit is parsed, "done" after it
  unit                           \* the program unit parsed: "program" or "subroutine"

vars == <<stmts, StmtList, ControlFlowStack, StmtLabelDeclsInScope,
          ForwardStmtLabelDeclsInScope, LoopVars, Diags, Actions, last, phase, unit>>

\* The semantic state as one value, threaded through the operations below.
Cur ==
  [stmts |-> stmts, StmtList |-> StmtList, ControlFlowStack |-> ControlFlowStack,
   StmtLabelDeclsInScope |-> StmtLabelDeclsInScope,
   ForwardStmtLabelDeclsInScope |-> ForwardStmtLabelDeclsInScope,
   LoopVars |-> LoopVars, Diags |-> <<>>, Actions |-> <<>>]

\* ------------------------------------------------------------- AST nodes
\* Stmt::...::Create: a node with its links unset.  `refs` keeps the label
\* expressions the statement was built from and `patched` counts the writes
\* to its link fields after creation; `openAt` keeps the statements of the
\* constructs that were open when the node was appended to the body (all
\* three are bookkeeping of the model).
MkStmt(kind, label, name) ==
  [kind |-> kind, label |-> label, name |-> name, part |-> "",
   dest |-> 0, slots |-> <<>>, refs |-> <<>>, term |-> 0,
   thenStmt |-> 0, elseStmt |-> 0, thenClosed |-> FALSE,
   doVar |-> 0, loop |-> 0,
   usedAsGotoTarget |-> FALSE, usedAsAssignTarget |-> FALSE, patched |-> 0,
   openAt |-> <<>>]

Create(s, node) == [s EXCEPT !.stmts = Append(@, node)]
Newest(s) == Len(s.stmts)

Diag(id, arg) == [id |-> id, arg |-> arg]
Report(s, id, arg) == [s EXCEPT !.Diags = Append(@, Diag(id, arg))]
Invoke(s, action) == [s EXCEPT !.Actions = Append(@, action)]

\* --------------------------------------------------------- StmtLabelScope
GetStmtLabelValue(E) ==
  IF E > StmtLabelIntegerMax THEN StmtLabelIntegerMax ELSE E

\* The map is the set of its (Key, Statement) pairs.  std::map::insert: an
\* existing key keeps its statement.
Declare(s, StmtLabel, Statement) ==
  LET Key == GetStmtLabelValue(StmtLabel) IN
  IF \E d \in s.StmtLabelDeclsInScope : d.Key = Key THEN s
  ELSE [s EXCEPT !.StmtLabelDeclsInScope =
          @ \cup {[Key |-> Key, Statement |-> Statement]}]

\* A faulty Resolve, which finds no label.
ResolveAlwaysMisses(s, StmtLabel) == 0

Resolve(s, StmtLabel) ==
  LET Key == GetStmtLabelValue(StmtLabel) IN
  IF \E d \in s.StmtLabelDeclsInScope : d.Key = Key
  THEN (CHOOSE d \in s.StmtLabelDeclsInScope : d.Key = Key).Statement
  ELSE 0

ForwardDecl(StmtLabel, Statement, ResolveCallbackData) ==
  [StmtLabel |-> StmtLabel, Statement |-> Statement,
   ResolveCallbackData |-> ResolveCallbackData]

\* A faulty DeclareForwardReference, which keeps the newest request only.
DeclareForwardReferenceOverwrites(s, Reference) ==
  [s EXCEPT !.ForwardStmtLabelDeclsInScope = <<Reference>>]

DeclareForwardReference(s, Reference) ==
  [s EXCEPT !.ForwardStmtLabelDeclsInScope = Append(@, Reference)]

\* A faulty reset, which leaves the pending list alone.
resetKeepsForwardReferences(s) == [s EXCEPT !.StmtLabelDeclsInScope = {}]

reset(s) ==
  [s EXCEPT !.StmtLabelDeclsInScope = {},
            !.ForwardStmtLabelDeclsInScope = <<>>]

IsSame(a, b) == GetStmtLabelValue(a) = GetStmtLabelValue(b)

RemoveForwardReference(s, User) ==
  [s EXCEPT !.ForwardStmtLabelDeclsInScope =
     SelectSeq(@, LAMBDA r : r.Statement # User)]

\* ------------------------------------------------------- BlockStmtBuilder
BodyAppend(s, S) ==
  [s EXCEPT !.StmtList = Append(@, S),
            !.stmts[S].openAt =
              [I \in DOMAIN s.ControlFlowStack |->
                 s.ControlFlowStack[I].Statement]]

Entry(Statement, ExpectedEndDoLabel) ==
  [Statement |-> Statement, ExpectedEndDoLabel |-> ExpectedEndDoLabel]

hasExpectedDoLabel(e) == e.ExpectedEndDoLabel # 0

Enter(s, e) == [s EXCEPT !.ControlFlowStack = Append(@, e)]

HasEntered(s) == Len(s.ControlFlowStack) # 0

LastEntered(s) == s.ControlFlowStack[Len(s.ControlFlowStack)]

Leave(s) ==
  [s EXCEPT !.ControlFlowStack = SubSeq(@, 1, Len(@) - 1)]

LeaveIfThen(s) ==
  [s EXCEPT !.stmts[LastEntered(s).Statement].thenClosed = TRUE]

\* ------------------------------------------------------ StmtLabelResolver
\* A write to a link field of an existing node.
VisitAssignStmt(s, S, StmtLabelDecl) ==
  [s EXCEPT !.stmts[S].dest = StmtLabelDecl,
            !.stmts[S].patched = @ + 1,
            !.stmts[StmtLabelDecl].usedAsAssignTarget = TRUE]

VisitAssignedGotoStmt(s, S, StmtLabelDecl, ResolveCallbackData) ==
  [s EXCEPT !.stmts[S].slots[ResolveCallbackData] = StmtLabelDecl,
            !.stmts[S].patched = @ + 1]

\* A faulty VisitGotoStmt, which leaves the destination unset.
VisitGotoStmtKeepsNull(s, S, StmtLabelDecl) ==
  [s EXCEPT !.stmts[S].patched = @ + 1]

VisitGotoStmt(s, S, StmtLabelDecl) ==
  [s EXCEPT !.stmts[S].dest = StmtLabelDecl,
            !.stmts[S].patched = @ + 1,
            !.stmts[StmtLabelDecl].usedAsGotoTarget = TRUE]

\* A faulty VisitComputedGotoStmt, which always writes the first target.
VisitComputedGotoStmtFirstSlot(s, S, StmtLabelDecl, ResolveCallbackData) ==
  [s EXCEPT !.stmts[S].slots[1] = StmtLabelDecl,
            !.stmts[S].patched = @ + 1,
            !.stmts[StmtLabelDecl].usedAsGotoTarget = TRUE]

VisitComputedGotoStmt(s, S, StmtLabelDecl, ResolveCallbackData) ==
  [s EXCEPT !.stmts[S].slots[ResolveCallbackData] = StmtLabelDecl,
            !.stmts[S].patched = @ + 1,
            !.stmts[StmtLabelDecl].usedAsGotoTarget = TRUE]

\* A faulty VisitDoStmt, which leaves the terminating statement unset.
VisitDoStmtKeepsNull(s, S, StmtLabelDecl) ==
  [s EXCEPT !.stmts[S].patched = @ + 1]

VisitDoStmt(s, S, StmtLabelDecl) ==
  [s EXCEPT !.stmts[S].term = StmtLabelDecl,
            !.stmts[S].patched = @ + 1]

\* The patch of one pending reference, by the kind of the statement owning it.
ResolveForwardUsage(s, Info, StmtLabelDecl) ==
  LET S == Info.Statement
      K == s.stmts[S].kind IN
  CASE K = "Assign" -> VisitAssignStmt(s, S, StmtLabelDecl)
    [] K = "AssignedGoto" ->
         VisitAssignedGotoStmt(s, S, StmtLabelDecl, Info.ResolveCallbackData)
    [] K = "Goto" -> VisitGotoStmt(s, S, StmtLabelDecl)
    [] K = "ComputedGoto" ->
         VisitComputedGotoStmt(s, S, StmtLabelDecl, Info.ResolveCallbackData)
    [] K = "Do" -> VisitDoStmt(s, S, StmtLabelDecl)
    [] OTHER -> s

\* ------------------------------------------------------------------- Sema
\* One registration per DO statement entered (the argument is the DoStmt's own
\* variable expression), released one at a time: a bag of variables.
AddLoopVar(s, Var) == [s EXCEPT !.LoopVars = @ (+) SetToBag({Var})]
RemoveLoopVar(s, Var) == [s EXCEPT !.LoopVars = @ (-) SetToBag({Var})]

\* The default of ReportUnterminatedStmt's last parameter.
ReportUnterminatedLabeledDoDefault == TRUE

\* A faulty ReportUnterminatedStmt, which never reports a labeled DO.
ReportUnterminatedStmtExceptLabeledDo(s, S, ReportUnterminatedLabeledDo) ==
  LET K == s.stmts[S.Statement].kind IN
  IF K = "If"
  THEN Report(Report(s, "err_expected_kw", "end if"), "note_matching", "if")
  ELSE IF S.ExpectedEndDoLabel # 0 THEN s
  ELSE Report(Report(s, "err_expected_kw", "end do"), "note_matching", "do")

ReportUnterminatedStmt(s, S, ReportUnterminatedLabeledDo) ==
  LET K == s.stmts[S.Statement].kind IN
  IF K = "If"
  THEN Report(Report(s, "err_expected_kw", "end if"), "note_matching", "if")
  ELSE IF S.ExpectedEndDoLabel # 0
  THEN IF ReportUnterminatedLabeledDo
       THEN Report(Report(s, "err_expected_stmt_label_end_do",
                          ToString(S.ExpectedEndDoLabel)), "note_matching", "do")
       ELSE s
  ELSE Report(Report(s, "err_expected_kw", "end do"), "note_matching", "do")

\* A faulty LeaveLastBlock, which keeps the DO variable registered.
LeaveLastBlockKeepsLoopVar(s) == Leave(s)

\* A faulty LeaveLastBlock, which drops the pending request of a DO it leaves.
LeaveLastBlockDropsReference(s) ==
  LET Last == LastEntered(s).Statement IN
  IF s.stmts[Last].kind = "Do"
  THEN Leave(RemoveLoopVar(RemoveForwardReference(s, Last),
                           s.stmts[Last].doVar))
  ELSE Leave(s)

LeaveLastBlock(s) ==
  LET Last == LastEntered(s).Statement IN
  IF s.stmts[Last].kind = "Do"
  THEN Leave(RemoveLoopVar(s, s.stmts[Last].doVar))
  ELSE Leave(s)

\* The loops below walk a copy of the stack top-down and pop the real stack
\* once per entry walked, so the entry walked is always the real top.
RECURSIVE LeaveBlocksUntilIf(_)
\* A faulty LeaveBlocksUntilIf, which finds the IF but leaves nothing.
LeaveBlocksUntilIfKeepsBlocks(s) ==
  IF \E i \in 1..Len(s.ControlFlowStack) :
       s.stmts[s.ControlFlowStack[i].Statement].kind = "If"
  THEN [s |-> s,
        If |-> s.ControlFlowStack[
                 CHOOSE i \in 1..Len(s.ControlFlowStack) :
                   /\ s.stmts[s.ControlFlowStack[i].Statement].kind = "If"
                   /\ \A j \in (i+1)..Len(s.ControlFlowStack) :
                        s.stmts[s.ControlFlowStack[j].Statement].kind # "If"
               ].Statement]
  ELSE [s |-> s, If |-> 0]

LeaveBlocksUntilIf(s) ==
  IF ~HasEntered(s) THEN [s |-> s, If |-> 0]
  ELSE IF s.stmts[LastEntered(s).Statement].kind = "If"
  THEN [s |-> s, If |-> LastEntered(s).Statement]
  ELSE LeaveBlocksUntilIf(LeaveLastBlock(
         ReportUnterminatedStmt(s, LastEntered(s),
                                ReportUnterminatedLabeledDoDefault)))

RECURSIVE LeaveBlocksUntilDo(_)
\* A faulty LeaveBlocksUntilDo, which leaves the blocks without reporting them.
RECURSIVE LeaveBlocksUntilDoUnreported(_)
LeaveBlocksUntilDoUnreported(s) ==
  IF ~HasEntered(s) THEN [s |-> s, Do |-> 0]
  ELSE IF \/ s.stmts[LastEntered(s).Statement].kind = "DoWhile"
          \/ /\ s.stmts[LastEntered(s).Statement].kind = "Do"
             /\ ~hasExpectedDoLabel(LastEntered(s))
  THEN [s |-> s, Do |-> LastEntered(s).Statement]
  ELSE LeaveBlocksUntilDoUnreported(LeaveLastBlock(s))

\* A faulty LeaveBlocksUntilDo, which stops at a DO awaiting a label as well.
RECURSIVE LeaveBlocksUntilDoOfAnyKind(_)
LeaveBlocksUntilDoOfAnyKind(s) ==
  IF ~HasEntered(s) THEN [s |-> s, Do |-> 0]
  ELSE IF s.stmts[LastEntered(s).Statement].kind \in {"DoWhile", "Do"}
  THEN [s |-> s, Do |-> LastEntered(s).Statement]
  ELSE LeaveBlocksUntilDoOfAnyKind(LeaveLastBlock(
         ReportUnterminatedStmt(s, LastEntered(s),
                                ReportUnterminatedLabeledDoDefault)))

LeaveBlocksUntilDo(s) ==
  IF ~HasEntered(s) THEN [s |-> s, Do |-> 0]
  ELSE IF \/ s.stmts[LastEntered(s).Statement].kind = "DoWhile"
          \/ /\ s.stmts[LastEntered(s).Statement].kind = "Do"
             /\ ~hasExpectedDoLabel(LastEntered(s))
  THEN [s |-> s, Do |-> LastEntered(s).Statement]
  ELSE LeaveBlocksUntilDo(LeaveLastBlock(
         ReportUnterminatedStmt(s, LastEntered(s),
                                ReportUnterminatedLabeledDoDefault)))

IsValidDoLogicalIfThenStatement(s, S) ==
  s.stmts[S].kind \notin {"Do", "If", "DoWhile", "ConstructPart"}

IsValidDoTerminatingStatement(s, S) ==
  LET K == s.stmts[S].kind IN
  IF K \in {"Goto", "AssignedGoto", "Stop", "Do", "DoWhile", "ConstructPart"}
  THEN FALSE
  ELSE IF K = "If"
  THEN /\ s.stmts[S].thenStmt # 0
       /\ IsValidDoLogicalIfThenStatement(s, s.stmts[S].thenStmt)
  ELSE TRUE

IsInLabeledDo(s, StmtLabel) ==
  \E I \in 1..Len(s.ControlFlowStack) :
    /\ s.stmts[s.ControlFlowStack[I].Statement].kind = "Do"
    /\ hasExpectedDoLabel(s.ControlFlowStack[I])
    /\ IsSame(s.ControlFlowStack[I].ExpectedEndDoLabel, StmtLabel)

RECURSIVE LeaveBlocksUntilLabeledDo(_, _)
LeaveBlocksUntilLabeledDo(s, StmtLabel) ==
  IF ~HasEntered(s) THEN [s |-> s, Do |-> 0]
  ELSE IF /\ s.stmts[LastEntered(s).Statement].kind = "Do"
          /\ hasExpectedDoLabel(LastEntered(s))
          /\ IsSame(LastEntered(s).ExpectedEndDoLabel, StmtLabel)
  THEN [s |-> s, Do |-> LastEntered(s).Statement]
  ELSE LeaveBlocksUntilLabeledDo(LeaveLastBlock(
         ReportUnterminatedStmt(s, LastEntered(s),
                                ReportUnterminatedLabeledDoDefault)), StmtLabel)

\* A faulty CheckStatementLabelEndDo, which gives up after the diagnostic.
CheckStatementLabelEndDoSkipsInvalid(s, StmtLabel, S) ==
  IF ~HasEntered(s) THEN s
  ELSE IF ~IsInLabeledDo(s, StmtLabel) THEN s
  ELSE
    LET r == LeaveBlocksUntilLabeledDo(s, StmtLabel)
        DoBegin == r.Do
        s1 == RemoveForwardReference(r.s, DoBegin) IN
    IF ~IsValidDoTerminatingStatement(s1, S)
    THEN Report(s1, "err_invalid_do_terminating_stmt", "")
    ELSE LeaveLastBlock([s1 EXCEPT !.stmts[DoBegin].term = S,
                                   !.stmts[DoBegin].patched = @ + 1])

\* A faulty CheckStatementLabelEndDo, which leaves the DO's pending reference
\* in the list.
CheckStatementLabelEndDoKeepsReference(s, StmtLabel, S) ==
  IF ~HasEntered(s) THEN s
  ELSE IF ~IsInLabeledDo(s, StmtLabel) THEN s
  ELSE
    LET r == LeaveBlocksUntilLabeledDo(s, StmtLabel)
        DoBegin == r.Do
        s1 == r.s
        s2 == IF ~IsValidDoTerminatingStatement(s1, S)
              THEN Report(s1, "err_invalid_do_terminating_stmt", "")
              ELSE s1
        s3 == [s2 EXCEPT !.stmts[DoBegin].term = S,
                         !.stmts[DoBegin].patched = @ + 1] IN
    LeaveLastBlock(s3)

CheckStatementLabelEndDo(s, StmtLabel, S) ==
  IF ~HasEntered(s) THEN s
  ELSE IF ~IsInLabeledDo(s, StmtLabel) THEN s
  ELSE
    LET r == LeaveBlocksUntilLabeledDo(s, StmtLabel)
        DoBegin == r.Do
        s1 == RemoveForwardReference(r.s, DoBegin)
        s2 == IF ~IsValidDoTerminatingStatement(s1, S)
              THEN Report(s1, "err_invalid_do_terminating_stmt", "")
              ELSE s1
        s3 == [s2 EXCEPT !.stmts[DoBegin].term = S,
                         !.stmts[DoBegin].patched = @ + 1] IN
    LeaveLastBlock(s3)

\* The pending references to StmtLabel, patched in list order and removed.
RECURSIVE PatchFrom(_, _, _, _)
PatchFrom(s, I, StmtLabel, S) ==
  IF I > Len(s.ForwardStmtLabelDeclsInScope) THEN s
  ELSE IF IsSame(s.ForwardStmtLabelDeclsInScope[I].StmtLabel, StmtLabel)
  THEN PatchFrom(ResolveForwardUsage(s, s.ForwardStmtLabelDeclsInScope[I], S),
                 I + 1, StmtLabel, S)
  ELSE PatchFrom(s, I + 1, StmtLabel, S)

ResolveForwardReferences(s, StmtLabel, S) ==
  LET p == PatchFrom(s, 1, StmtLabel, S) IN
  [p EXCEPT !.ForwardStmtLabelDeclsInScope =
     SelectSeq(@, LAMBDA r : ~IsSame(r.StmtLabel, StmtLabel))]

DeclareStatementLabel(s, StmtLabel, S) ==
  IF Resolve(s, StmtLabel) # 0
  THEN Report(Report(s, "err_redefinition_of_stmt_label", ToString(StmtLabel)),
              "note_previous_definition", ToString(Resolve(s, StmtLabel)))
  ELSE ResolveForwardReferences(
         CheckStatementLabelEndDo(Declare(s, StmtLabel, S), StmtLabel, S),
         StmtLabel, S)

\* ------------------------------------------------- Sema: the GOTO family
\* Every action returns the state and its StmtResult: the node built, or
\* Invalid for StmtError().
Ok(s, Result) == [s |-> s, Result |-> Result, Invalid |-> FALSE]
StmtError(s) == [s |-> s, Result |-> 0, Invalid |-> TRUE]

DeclareLabelOf(s, StmtLabel, Result) ==
  IF StmtLabel # 0 THEN DeclareStatementLabel(s, StmtLabel, Result) ELSE s

\* A faulty ActOnAssignStmt, which records no request for an undeclared label.
ActOnAssignStmtDropsReference(s0, Value, VarRef, StmtLabel) ==
  LET s == Invoke(s0, "ActOnAssignStmt")
      Decl == Resolve(s, Value)
      node == [MkStmt("Assign", StmtLabel, 0) EXCEPT
                 !.dest = Decl, !.refs = <<Value>>, !.doVar = VarRef]
      s1 == Create(s, node)
      Result == Newest(s1)
      s2 == IF Decl = 0
            THEN s1
            ELSE [s1 EXCEPT !.stmts[Decl].usedAsAssignTarget = TRUE] IN
  Ok(DeclareLabelOf(BodyAppend(s2, Result), StmtLabel, Result), Result)

ActOnAssignStmt(s0, Value, VarRef, StmtLabel) ==
  LET s == Invoke(s0, "ActOnAssignStmt")
      Decl == Resolve(s, Value)
      node == [MkStmt("Assign", StmtLabel, 0) EXCEPT
                 !.dest = Decl, !.refs = <<Value>>, !.doVar = VarRef]
      s1 == Create(s, node)
      Result == Newest(s1)
      s2 == IF Decl = 0
            THEN DeclareForwardReference(s1, ForwardDecl(Value, Result, 0))
            ELSE [s1 EXCEPT !.stmts[Decl].usedAsAssignTarget = TRUE] IN
  Ok(DeclareLabelOf(BodyAppend(s2, Result), StmtLabel, Result), Result)

\* The slots of a label list: the declaring statement, or 0 when unresolved.
ResolvedSlots(s, Values) ==
  [I \in 1..Len(Values) |-> Resolve(s, Values[I])]

RECURSIVE DeclareForwardSlots(_, _, _, _)
DeclareForwardSlots(s, Values, Result, I) ==
  IF I > Len(Values) THEN s
  ELSE IF s.stmts[Result].slots[I] = 0
  THEN DeclareForwardSlots(
         DeclareForwardReference(s, ForwardDecl(Values[I], Result, I)),
         Values, Result, I + 1)
  ELSE DeclareForwardSlots(s, Values, Result, I + 1)

ActOnAssignedGotoStmt(s0, VarRef, AllowedValues, StmtLabel) ==
  LET s == Invoke(s0, "ActOnAssignedGotoStmt")
      node == [MkStmt("AssignedGoto", StmtLabel, 0) EXCEPT
                 !.slots = ResolvedSlots(s, AllowedValues),
                 !.refs = AllowedValues, !.doVar = VarRef]
      s1 == Create(s, node)
      Result == Newest(s1)
      s2 == DeclareForwardSlots(s1, AllowedValues, Result, 1) IN
  Ok(DeclareLabelOf(BodyAppend(s2, Result), StmtLabel, Result), Result)

\* A faulty ActOnGotoStmt, which defers resolved destinations too.
ActOnGotoStmtAlwaysDefers(s0, Destination, StmtLabel) ==
  LET s == Invoke(s0, "ActOnGotoStmt")
      Decl == Resolve(s, Destination)
      node == [MkStmt("Goto", StmtLabel, 0) EXCEPT
                 !.dest = Decl, !.refs = <<Destination>>]
      s1 == Create(s, node)
      Result == Newest(s1)
      s2 == DeclareForwardReference(s1, ForwardDecl(Destination, Result, 0)) IN
  Ok(DeclareLabelOf(BodyAppend(s2, Result), StmtLabel, Result), Result)

ActOnGotoStmt(s0, Destination, StmtLabel) ==
  LET s == Invoke(s0, "ActOnGotoStmt")
      Decl == Resolve(s, Destination)
      node == [MkStmt("Goto", StmtLabel, 0) EXCEPT
                 !.dest = Decl, !.refs = <<Destination>>]
      s1 == Create(s, node)
      Result == Newest(s1)
      s2 == IF Decl = 0
            THEN DeclareForwardReference(s1, ForwardDecl(Destination, Result, 0))
            ELSE [s1 EXCEPT !.stmts[Decl].usedAsGotoTarget = TRUE] IN
  Ok(DeclareLabelOf(BodyAppend(s2, Result), StmtLabel, Result), Result)

RECURSIVE MarkGotoTargets(_, _, _)
MarkGotoTargets(s, Slots, I) ==
  IF I > Len(Slots) THEN s
  ELSE IF Slots[I] # 0
  THEN MarkGotoTargets([s EXCEPT !.stmts[Slots[I]].usedAsGotoTarget = TRUE],
                       Slots, I + 1)
  ELSE MarkGotoTargets(s, Slots, I + 1)

ActOnComputedGotoStmt(s0, Targets, StmtLabel) ==
  LET s == Invoke(s0, "ActOnComputedGotoStmt")
      TargetLabels == ResolvedSlots(s, Targets)
      sm == MarkGotoTargets(s, TargetLabels, 1)
      node == [MkStmt("ComputedGoto", StmtLabel, 0) EXCEPT
                 !.slots = TargetLabels, !.refs = Targets]
      s1 == Create(sm, node)
      Result == Newest(s1)
      s2 == DeclareForwardSlots(s1, Targets, Result, 1) IN
  Ok(DeclareLabelOf(BodyAppend(s2, Result), StmtLabel, Result), Result)

\* ------------------------------------------- Sema: block statements entry
\* A faulty ActOnIfStmt, which does not enter the IfStmt.
ActOnIfStmtWithoutEnter(s0, Condition, Name, StmtLabel) ==
  LET s == Invoke(s0, "ActOnIfStmt")
      s1 == Create(s, MkStmt("If", StmtLabel, Name))
      Result == Newest(s1)
      s2 == IF Condition THEN BodyAppend(s1, Result) ELSE s1 IN
  Ok(DeclareLabelOf(s2, StmtLabel, Result), Result)

ActOnIfStmt(s0, Condition, Name, StmtLabel) ==
  LET s == Invoke(s0, "ActOnIfStmt")
      s1 == Create(s, MkStmt("If", StmtLabel, Name))
      Result == Newest(s1)
      s2 == IF Condition THEN BodyAppend(s1, Result) ELSE s1
      s3 == DeclareLabelOf(s2, StmtLabel, Result) IN
  Ok(Enter(s3, Entry(Result, 0)), Result)

\* A faulty ActOnDoStmt, which reports a declared terminal label and builds
\* the DoStmt all the same.
ActOnDoStmtBuildsAnyway(s0, TerminatingStmt, DoVar, E1, E2, Name, StmtLabel) ==
  LET s == Invoke(s0, "ActOnDoStmt")
      AddToBody == DoVar # 0 /\ E1 /\ E2
      sr == IF TerminatingStmt # 0 /\ Resolve(s, TerminatingStmt) # 0
            THEN Report(Report(s, "err_stmt_label_must_decl_after",
                               ToString(TerminatingStmt)),
                        "note_previous_definition",
                        ToString(Resolve(s, TerminatingStmt)))
            ELSE s
      s1 == Create(sr, [MkStmt("Do", StmtLabel, Name) EXCEPT
                          !.doVar = DoVar,
                          !.refs = IF TerminatingStmt # 0
                                   THEN <<TerminatingStmt>> ELSE <<>>])
      Result == Newest(s1)
      s2 == IF DoVar # 0 THEN AddLoopVar(s1, DoVar) ELSE s1
      s3 == IF AddToBody THEN BodyAppend(s2, Result) ELSE s2
      s5 == DeclareLabelOf(s3, StmtLabel, Result) IN
  Ok(Enter(s5, Entry(Result, TerminatingStmt)), Result)

ActOnDoStmt(s0, TerminatingStmt, DoVar, E1, E2, Name, StmtLabel) ==
  LET s == Invoke(s0, "ActOnDoStmt")
      AddToBody == DoVar # 0 /\ E1 /\ E2 IN
  IF TerminatingStmt # 0 /\ Resolve(s, TerminatingStmt) # 0
  THEN StmtError(Report(Report(s, "err_stmt_label_must_decl_after",
                               ToString(TerminatingStmt)),
                        "note_previous_definition",
                        ToString(Resolve(s, TerminatingStmt))))
  ELSE
    LET s1 == Create(s, [MkStmt("Do", StmtLabel, Name) EXCEPT
                           !.doVar = DoVar,
                           !.refs = IF TerminatingStmt # 0
                                    THEN <<TerminatingStmt>> ELSE <<>>])
        Result == Newest(s1)
        s2 == IF DoVar # 0 THEN AddLoopVar(s1, DoVar) ELSE s1
        s3 == IF AddToBody THEN BodyAppend(s2, Result) ELSE s2
        s4 == IF TerminatingStmt # 0
              THEN DeclareForwardReference(
                     s3, ForwardDecl(TerminatingStmt, Result, 0))
              ELSE s3
        s5 == DeclareLabelOf(s4, StmtLabel, Result) IN
    Ok(Enter(s5, Entry(Result, TerminatingStmt)), Result)

ActOnDoWhileStmt(s0, Condition, Name, StmtLabel) ==
  LET s == Invoke(s0, "ActOnDoWhileStmt")
      s1 == Create(s, MkStmt("DoWhile", StmtLabel, Name))
      Result == Newest(s1)
      s2 == IF Condition THEN BodyAppend(s1, Result) ELSE s1
      s3 == DeclareLabelOf(s2, StmtLabel, Result) IN
  Ok(Enter(s3, Entry(Result, 0)), Result)

\* A faulty CheckConstructNameMatch, which accepts a closer without a name.
CheckConstructNameMatchAcceptsNone(s, Name, S) ==
  LET ExpectedName == s.stmts[S].name IN
  IF Name # 0
  THEN IF ExpectedName = 0
       THEN Report(s, "err_use_of_invalid_construct_name", "")
       ELSE IF ExpectedName # Name
       THEN Report(Report(s, "err_expected_construct_name", ToString(ExpectedName)),
                   "note_matching_ident", ToString(ExpectedName))
       ELSE s
  ELSE s

CheckConstructNameMatch(s, Name, S) ==
  LET ExpectedName == s.stmts[S].name
      Mismatch(x) ==
        Report(Report(x, "err_expected_construct_name", ToString(ExpectedName)),
               "note_matching_ident", ToString(ExpectedName)) IN
  IF Name # 0
  THEN IF ExpectedName = 0
       THEN Report(s, "err_use_of_invalid_construct_name", "")
       ELSE IF ExpectedName # Name THEN Mismatch(s) ELSE s
  ELSE IF ExpectedName # 0 THEN Mismatch(s) ELSE s

\* ---------------------- Sema: block statements termination, control flow
Part(StmtLabel, part) == [MkStmt("ConstructPart", StmtLabel, 0) EXCEPT !.part = part]

\* A faulty ActOnElseIfStmt, which does not set the else-branch of the IF.
ActOnElseIfStmtWithoutElseLink(s0, Condition, Name, StmtLabel) ==
  LET r == LeaveBlocksUntilIf(Invoke(s0, "ActOnElseIfStmt"))
      IfBegin == r.If
      s1 == IF IfBegin = 0
            THEN Report(r.s, "err_stmt_not_in_if", "else if") ELSE r.s
      s2 == Create(s1, MkStmt("If", StmtLabel,
                              IF IfBegin # 0 THEN s1.stmts[IfBegin].name ELSE 0))
      Result == Newest(s2)
      s3 == IF IfBegin # 0
            THEN CheckConstructNameMatch(LeaveLastBlock(s2), Name, IfBegin)
            ELSE s2
      s4 == DeclareLabelOf(s3, StmtLabel, Result) IN
  Ok(Enter(s4, Entry(Result, 0)), Result)

\* A faulty ActOnElseIfStmt, which gives the new IfStmt the name written on
\* the ELSE IF.
ActOnElseIfStmtNamedAsWritten(s0, Condition, Name, StmtLabel) ==
  LET r == LeaveBlocksUntilIf(Invoke(s0, "ActOnElseIfStmt"))
      IfBegin == r.If
      s1 == IF IfBegin = 0
            THEN Report(r.s, "err_stmt_not_in_if", "else if") ELSE r.s
      s2 == Create(s1, MkStmt("If", StmtLabel, Name))
      Result == Newest(s2)
      s3 == IF IfBegin # 0
            THEN LET c == CheckConstructNameMatch(LeaveLastBlock(s2), Name, IfBegin) IN
                 IF Condition
                 THEN [c EXCEPT !.stmts[IfBegin].elseStmt = Result] ELSE c
            ELSE s2
      s4 == DeclareLabelOf(s3, StmtLabel, Result) IN
  Ok(Enter(s4, Entry(Result, 0)), Result)

ActOnElseIfStmt(s0, Condition, Name, StmtLabel) ==
  LET r == LeaveBlocksUntilIf(Invoke(s0, "ActOnElseIfStmt"))
      IfBegin == r.If
      s1 == IF IfBegin = 0
            THEN Report(r.s, "err_stmt_not_in_if", "else if") ELSE r.s
      s2 == Create(s1, MkStmt("If", StmtLabel,
                              IF IfBegin # 0 THEN s1.stmts[IfBegin].name ELSE 0))
      Result == Newest(s2)
      s3 == IF IfBegin # 0
            THEN LET c == CheckConstructNameMatch(LeaveLastBlock(s2), Name, IfBegin) IN
                 IF Condition
                 THEN [c EXCEPT !.stmts[IfBegin].elseStmt = Result] ELSE c
            ELSE s2
      s4 == DeclareLabelOf(s3, StmtLabel, Result) IN
  Ok(Enter(s4, Entry(Result, 0)), Result)

ActOnElseStmt(s0, Name, StmtLabel) ==
  LET r == LeaveBlocksUntilIf(Invoke(s0, "ActOnElseStmt"))
      IfBegin == r.If
      s1 == IF IfBegin = 0
            THEN Report(r.s, "err_stmt_not_in_if", "else") ELSE r.s
      s2 == Create(s1, Part(StmtLabel, "Else"))
      Result == Newest(s2)
      s3 == BodyAppend(s2, Result)
      s4 == IF IfBegin # 0
            THEN CheckConstructNameMatch(LeaveIfThen(s3), Name, IfBegin)
            ELSE s3 IN
  Ok(DeclareLabelOf(s4, StmtLabel, Result), Result)

ActOnEndIfStmt(s0, Name, StmtLabel) ==
  LET r == LeaveBlocksUntilIf(Invoke(s0, "ActOnEndIfStmt"))
      IfBegin == r.If
      s1 == IF IfBegin = 0
            THEN Report(r.s, "err_stmt_not_in_if", "end if") ELSE r.s
      s2 == Create(s1, Part(StmtLabel, "EndIf"))
      Result == Newest(s2)
      s3 == BodyAppend(s2, Result)
      s4 == IF IfBegin # 0
            THEN CheckConstructNameMatch(LeaveLastBlock(s3), Name, IfBegin)
            ELSE s3 IN
  Ok(DeclareLabelOf(s4, StmtLabel, Result), Result)

ActOnEndDoStmt(s0, Name, StmtLabel) ==
  LET r == LeaveBlocksUntilDo(Invoke(s0, "ActOnEndDoStmt"))
      DoBegin == r.Do
      s1 == IF DoBegin = 0
            THEN Report(r.s, "err_end_do_without_do", "") ELSE r.s
      s2 == Create(s1, Part(StmtLabel, "EndDo"))
      Result == Newest(s2)
      s3 == BodyAppend(s2, Result)
      s4 == IF DoBegin # 0
            THEN CheckConstructNameMatch(LeaveLastBlock(s3), Name, DoBegin)
            ELSE s3 IN
  Ok(DeclareLabelOf(s4, StmtLabel, Result), Result)

\* A faulty search, which returns the innermost entry of that name whatever
\* its kind.
LoopInRangeOfAnyKind(s, Name) ==
  LET Hit(I) ==
        \/ /\ Name = 0
           /\ s.stmts[s.ControlFlowStack[I].Statement].kind \in {"Do", "DoWhile"}
        \/ /\ Name # 0
           /\ s.stmts[s.ControlFlowStack[I].Statement].name = Name
      Hits == {I \in 1..Len(s.ControlFlowStack) : Hit(I)} IN
  IF Hits = {} THEN 0
  ELSE s.ControlFlowStack[CHOOSE I \in Hits : \A J \in Hits : J <= I].Statement

\* The innermost loop entry, of that name when a name is given; 0 when none.
LoopInRange(s, Name) ==
  LET Hit(I) ==
        /\ \/ Name = 0
           \/ s.stmts[s.ControlFlowStack[I].Statement].name = Name
        /\ s.stmts[s.ControlFlowStack[I].Statement].kind \in {"Do", "DoWhile"}
      Hits == {I \in 1..Len(s.ControlFlowStack) : Hit(I)} IN
  IF Hits = {} THEN 0
  ELSE s.ControlFlowStack[CHOOSE I \in Hits : \A J \in Hits : J <= I].Statement

\* A faulty CheckWithinLoopRange, which reports err_stmt_not_in_loop for a
\* name too.
CheckWithinLoopRangeOneKind(s, StmtString, Name) ==
  LET Loop == LoopInRange(s, Name) IN
  IF Loop # 0 THEN [s |-> s, Loop |-> Loop]
  ELSE [s |-> Report(s, "err_stmt_not_in_loop", StmtString), Loop |-> 0]

CheckWithinLoopRange(s, StmtString, Name) ==
  LET Loop == LoopInRange(s, Name) IN
  IF Loop # 0 THEN [s |-> s, Loop |-> Loop]
  ELSE IF Name = 0
  THEN [s |-> Report(s, "err_stmt_not_in_loop", StmtString), Loop |-> 0]
  ELSE [s |-> Report(s, "err_stmt_not_in_named_loop", StmtString), Loop |-> 0]

ActOnCycleStmt(s0, LoopName, StmtLabel) ==
  LET r == CheckWithinLoopRange(Invoke(s0, "ActOnCycleStmt"), "cycle", LoopName)
      s1 == Create(r.s, [MkStmt("Cycle", StmtLabel, LoopName) EXCEPT !.loop = r.Loop])
      Result == Newest(s1) IN
  Ok(DeclareLabelOf(BodyAppend(s1, Result), StmtLabel, Result), Result)

ActOnExitStmt(s0, LoopName, StmtLabel) ==
  LET r == CheckWithinLoopRange(Invoke(s0, "ActOnExitStmt"), "exit", LoopName)
      s1 == Create(r.s, [MkStmt("Exit", StmtLabel, LoopName) EXCEPT !.loop = r.Loop])
      Result == Newest(s1) IN
  Ok(DeclareLabelOf(BodyAppend(s1, Result), StmtLabel, Result), Result)

\* A faulty BuildDirectly, which declares the label before it appends.
BuildDirectlyDeclaresFirst(s, kind, StmtLabel) ==
  LET s1 == Create(s, MkStmt(kind, StmtLabel, 0))
      Result == Newest(s1) IN
  Ok(BodyAppend(DeclareLabelOf(s1, StmtLabel, Result), Result), Result)

\* Create, Append, declare the label: CONTINUE, STOP and the like.
BuildDirectly(s, kind, StmtLabel) ==
  LET s1 == Create(s, MkStmt(kind, StmtLabel, 0))
      Result == Newest(s1) IN
  Ok(DeclareLabelOf(BodyAppend(s1, Result), StmtLabel, Result), Result)

ActOnContinueStmt(s0, StmtLabel) ==
  BuildDirectly(Invoke(s0, "ActOnContinueStmt"), "Continue", StmtLabel)

ActOnStopStmt(s0, StmtLabel) ==
  BuildDirectly(Invoke(s0, "ActOnStopStmt"), "Stop", StmtLabel)

IsInsideFunctionOrSubroutine == unit # "program"

\* A faulty ActOnReturnStmt, which builds the statement after the diagnostic.
ActOnReturnStmtBuildsAnyway(s0, StmtLabel) ==
  LET s == Invoke(s0, "ActOnReturnStmt") IN
  IF ~IsInsideFunctionOrSubroutine
  THEN BuildDirectly(Report(s, "err_stmt_not_in_func", "RETURN"),
                     "Return", StmtLabel)
  ELSE BuildDirectly(s, "Return", StmtLabel)

ActOnReturnStmt(s0, StmtLabel) ==
  LET s == Invoke(s0, "ActOnReturnStmt") IN
  IF ~IsInsideFunctionOrSubroutine
  THEN StmtError(Report(s, "err_stmt_not_in_func", "RETURN"))
  ELSE BuildDirectly(s, "Return", StmtLabel)

\* Callee: what the name resolves to, "subroutine", "function", "variable"
\* or "undeclared" (then an external procedure is declared implicitly).
ActOnCallStmt(s0, Callee, StmtLabel) ==
  LET s == Invoke(s0, "ActOnCallStmt") IN
  IF Callee \in {"function", "variable"}
  THEN StmtError(Report(s, "err_call_requires_subroutine", Callee))
  ELSE BuildDirectly(s, "Call", StmtLabel)

ActOnAssignmentStmt(s0, StmtLabel) ==
  BuildDirectly(Invoke(s0, "ActOnAssignmentStmt"), "Assignment", StmtLabel)

ActOnPrintStmt(s0, StmtLabel) ==
  BuildDirectly(Invoke(s0, "ActOnPrintStmt"), "Print", StmtLabel)

ActOnWriteStmt(s0, StmtLabel) ==
  BuildDirectly(Invoke(s0, "ActOnWriteStmt"), "Write", StmtLabel)

\* ------------------------------------------------------------- the parser
\* A statement as the parser meets it: its label, its leading token, whether
\* the token after an identifier is '=', its operands, and `bad`, the place
\* where the statement is malformed ("none" when it is well formed).  `then`
\* holds the action statement of an IF without THEN.
Form ==
  [tok |-> "identifier", nextEq |-> FALSE, label |-> 0, bad |-> "none",
   dest |-> 0, paren |-> FALSE, list |-> <<>>, var |-> 1, term |-> 0,
   hasThen |-> FALSE, then |-> <<>>, callee |-> "subroutine", name |-> 0]

Empty(s) == [s |-> s, Result |-> 0, Invalid |-> FALSE]

ParseAssignStmt(s, f) ==
  IF f.bad = "label"
  THEN StmtError(Report(s, "err_expected_stmt_label_after", "ASSIGN"))
  ELSE IF f.bad = "to" THEN StmtError(Report(s, "err_expected_kw", "TO"))
  ELSE IF f.bad = "var" THEN StmtError(Report(s, "err_expected_int_var", "TO"))
  ELSE ActOnAssignStmt(s, f.dest, f.var, f.label)

ParseGotoStmt(s, f) ==
  IF f.dest # 0 THEN ActOnGotoStmt(s, f.dest, f.label)
  ELSE IF f.bad = "var" \/ f.var = 0
  THEN StmtError(Report(s, "err_expected_stmt_label_after", "GO TO"))
  ELSE IF f.paren /\ f.bad = "listLabel"
  THEN StmtError(Report(s, "err_expected_stmt_label", ""))
  ELSE ActOnAssignedGotoStmt(
         IF f.paren /\ f.bad = "rparen"
         THEN Report(s, "err_expected_rparen", "") ELSE s,
         f.var, f.list, f.label)

ParseElseIfStmt(s, f) ==
  IF f.bad = "lparen"
  THEN StmtError(Report(s, "err_expected_lparen_after", "ELSE IF"))
  ELSE IF f.bad = "then" THEN StmtError(Report(s, "err_expected_kw", "THEN"))
  ELSE ActOnElseIfStmt(s, TRUE, f.name, f.label)

ParseElseStmt(s, f) == ActOnElseStmt(s, f.name, f.label)

ParseEndIfStmt(s, f) == ActOnEndIfStmt(s, f.name, f.label)

ParseDoStmt(s, f) ==
  IF f.bad = "var" THEN StmtError(Report(s, "err_expected_do_var", ""))
  ELSE IF f.bad = "equal" THEN StmtError(Report(s, "err_expected_equal", ""))
  ELSE IF f.bad = "comma" THEN StmtError(Report(s, "err_expected_comma", ""))
  ELSE ActOnDoStmt(s, f.term, f.var, TRUE, TRUE, f.name, f.label)

ParseDoWhileStmt(s, f) ==
  IF f.bad = "lparen"
  THEN StmtError(Report(s, "err_expected_lparen_after", "WHILE"))
  ELSE ActOnDoWhileStmt(s, TRUE, f.name, f.label)

ParseEndDoStmt(s, f) == ActOnEndDoStmt(s, f.name, f.label)

ParseContinueStmt(s, f) == ActOnContinueStmt(s, f.label)

ParseStopStmt(s, f) == ActOnStopStmt(s, f.label)

ParseReturnStmt(s, f) == ActOnReturnStmt(s, f.label)

ParseCallStmt(s, f) ==
  IF f.bad = "ident" THEN StmtError(Report(s, "err_expected_ident", ""))
  ELSE IF f.callee \in {"variable", "undeclared"}
  THEN StmtError(Report(s, "err_expected_func_after", "CALL"))
  ELSE ActOnCallStmt(
         IF f.bad = "lparen" THEN Report(s, "err_expected_lparen", "") ELSE s,
         f.callee, f.label)

ParseAssignmentStmt(s, f) ==
  IF f.bad = "lhs" THEN StmtError(Report(s, "err_expected_expression", ""))
  ELSE IF f.bad = "equal" \/ ~f.nextEq
  THEN StmtError(Report(s, "err_expected_equal", ""))
  ELSE IF f.bad = "rhs"
  THEN StmtError(Report(s, "err_expected_expression_after", "="))
  ELSE ActOnAssignmentStmt(s, f.label)

\* The format is `*`; the output items are parsed by the expression parser.
ParsePrintStmt(s, f) ==
  IF f.bad = "comma" THEN StmtError(Report(s, "err_expected_comma", ""))
  ELSE ActOnPrintStmt(s, f.label)

ParseWriteStmt(s, f) ==
  LET s1 == IF f.bad = "lparen" THEN Report(s, "err_expected_lparen", "") ELSE s IN
  IF f.bad = "equal" THEN StmtError(Report(s1, "err_expected_equal", ""))
  ELSE ActOnWriteStmt(
         IF f.bad = "rparen" THEN Report(s1, "err_expected_rparen", "") ELSE s1,
         f.label)

\* Tok.getIdentifierInfo(): identifiers and keywords carry one.
HasIdentifierInfo(tok) == tok \notin {"eof", "int_literal_constant"}

RECURSIVE ParseActionStmt(_, _)
RECURSIVE ParseIfStmt(_, _)
\* A faulty ParseIfStmt, which synthesizes no END IF.
ParseIfStmtWithoutEndIf(s, f) ==
  IF f.bad = "lparen"
  THEN StmtError(Report(s, "err_expected_lparen_after", "IF"))
  ELSE IF ~f.hasThen
  THEN IF f.then = <<>>
       THEN StmtError(Report(s, "err_expected_executable_stmt", ""))
       ELSE
         LET Result == ActOnIfStmt(s, TRUE, 0, f.label) IN
         IF Result.Invalid THEN Result
         ELSE
           LET Action == ParseActionStmt(Result.s, [f.then[1] EXCEPT !.label = 0]) IN
           IF Action.Invalid THEN StmtError(Action.s)
           ELSE Ok(Action.s, Result.Result)
  ELSE ActOnIfStmt(s, TRUE, f.name, f.label)

ParseIfStmt(s, f) ==
  IF f.bad = "lparen"
  THEN StmtError(Report(s, "err_expected_lparen_after", "IF"))
  ELSE IF ~f.hasThen
  THEN IF f.then = <<>>
       THEN StmtError(Report(s, "err_expected_executable_stmt", ""))
       ELSE
         LET Result == ActOnIfStmt(s, TRUE, 0, f.label) IN
         IF Result.Invalid THEN Result
         ELSE
           \* StmtLabel = nullptr: the action statement gets no label.
           LET Action == ParseActionStmt(Result.s, [f.then[1] EXCEPT !.label = 0])
               End == ActOnEndIfStmt(Action.s, 0, 0) IN
           IF Action.Invalid THEN StmtError(End.s) ELSE Ok(End.s, Result.Result)
  ELSE ActOnIfStmt(s, TRUE, f.name, f.label)

\* FORMAT statements are parsed outside this file and are not among the forms.
ParseActionStmt(s, f) ==
  IF HasIdentifierInfo(f.tok) /\ f.nextEq THEN ParseAssignmentStmt(s, f)
  ELSE
    CASE f.tok = "kw_ASSIGN" -> ParseAssignStmt(s, f)
      [] f.tok = "kw_GOTO" -> ParseGotoStmt(s, f)
      [] f.tok = "kw_IF" -> ParseIfStmt(s, f)
      [] f.tok = "kw_ELSEIF" -> ParseElseIfStmt(s, f)
      [] f.tok = "kw_ELSE" -> ParseElseStmt(s, f)
      [] f.tok = "kw_ENDIF" -> ParseEndIfStmt(s, f)
      [] f.tok = "kw_DO" -> ParseDoStmt(s, f)
      [] f.tok = "kw_DOWHILE" -> ParseDoWhileStmt(s, f)
      [] f.tok = "kw_ENDDO" -> ParseEndDoStmt(s, f)
      [] f.tok = "kw_CONTINUE" -> ParseContinueStmt(s, f)
      [] f.tok = "kw_STOP" -> ParseStopStmt(s, f)
      [] f.tok = "kw_PRINT" -> ParsePrintStmt(s, f)
      [] f.tok = "kw_WRITE" -> ParseWriteStmt(s, f)
      [] f.tok = "kw_RETURN" -> ParseReturnStmt(s, f)
      [] f.tok = "kw_CALL" -> ParseCallStmt(s, f)
      [] f.tok \in {"eof", "kw_END", "kw_ENDFUNCTION", "kw_ENDPROGRAM",
                    "kw_ENDSUBPROGRAM", "kw_ENDSUBROUTINE"} -> Empty(s)
      [] OTHER -> ParseAssignmentStmt(s, f)

\* ------------------------------------------------------ the program unit
\* The end of a program unit: every pending forward reference is reported,
\* every construct still open is reported and left, the label table is reset.
RECURSIVE ReportUnresolved(_, _)
ReportUnresolved(s, I) ==
  IF I > Len(s.ForwardStmtLabelDeclsInScope) THEN s
  ELSE ReportUnresolved(
         Report(s, "err_undeclared_stmt_label_use",
                ToString(s.ForwardStmtLabelDeclsInScope[I].StmtLabel)), I + 1)

RECURSIVE LeaveAllBlocks(_)
LeaveAllBlocks(s) ==
  IF ~HasEntered(s) THEN s
  ELSE LeaveAllBlocks(LeaveLastBlock(
         ReportUnterminatedStmt(s, LastEntered(s),
                                ReportUnterminatedLabeledDoDefault)))

ActOnEndProgramUnit(s) == reset(LeaveAllBlocks(ReportUnresolved(s, 1)))

\* ---------------------------------------------------------------- actions
Init ==
  /\ stmts = <<>>
  /\ StmtList = <<>>
  /\ ControlFlowStack = <<>>
  /\ StmtLabelDeclsInScope = {}
  /\ ForwardStmtLabelDeclsInScope = <<>>
  /\ LoopVars = EmptyBag
  /\ Diags = <<>>
  /\ Actions = <<>>
  /\ last = [op |-> "init", form |-> Form, Invalid |-> FALSE, Result |-> 0]
  /\ phase = "done"
  /\ unit = "program"

Install(s) ==
  /\ stmts' = s.stmts
  /\ StmtList' = s.StmtList
  /\ ControlFlowStack' = s.ControlFlowStack
  /\ StmtLabelDeclsInScope' = s.StmtLabelDeclsInScope
  /\ ForwardStmtLabelDeclsInScope' = s.ForwardStmtLabelDeclsInScope
  /\ LoopVars' = s.LoopVars
  /\ Diags' = s.Diags
  /\ Actions' = s.Actions

\* A program unit is entered: a fresh body and a reset label table.
EnterUnit(u) ==
  /\ phase = "done"
  /\ Install(reset([Cur EXCEPT !.stmts = <<>>, !.StmtList = <<>>,
                               !.ControlFlowStack = <<>>, !.LoopVars = EmptyBag]))
  /\ last' = [op |-> "enter", form |-> Form, Invalid |-> FALSE, Result |-> 0]
  /\ phase' = "body"
  /\ unit' = u

MainProgram == EnterUnit("program")

SubProgram == EnterUnit("subroutine")

EndProgramUnit ==
  /\ phase = "body"
  /\ Install(ActOnEndProgramUnit(Cur))
  /\ last' = [op |-> "end", form |-> Form, Invalid |-> FALSE, Result |-> 0]
  /\ phase' = "done"
  /\ UNCHANGED unit

\* One statement of the body goes through the parser.
Statement(f) ==
  /\ phase = "body"
  /\ LET r == ParseActionStmt(Cur, f) IN
       /\ Len(r.s.stmts) <= MaxStmts
       /\ Install(r.s)
       /\ last' = [op |-> "stmt", form |-> f, Invalid |-> r.Invalid,
                   Result |-> r.Result]
  /\ UNCHANGED <<phase, unit>>

\* The well-formed statements, by kind.
Labeled(tok, l) == [Form EXCEPT !.tok = tok, !.label = l]
GotoForm(l, d) == [Labeled("kw_GOTO", l) EXCEPT !.dest = d]
AssignedGotoForm(l, L) == [Labeled("kw_GOTO", l) EXCEPT !.paren = TRUE, !.list = L]
AssignForm(l, d) == [Labeled("kw_ASSIGN", l) EXCEPT !.dest = d]
DoForm(l, t, v) == [Labeled("kw_DO", l) EXCEPT !.term = t, !.var = v]
IfThenForm(l) == [Labeled("kw_IF", l) EXCEPT !.hasThen = TRUE]
IfForm(l, a) == [Labeled("kw_IF", l) EXCEPT !.then = <<a>>]
AssignmentForm(l) == [Labeled("identifier", l) EXCEPT !.nextEq = TRUE]
Malformed(f, bad) == [f EXCEPT !.bad = bad]

GotoStmt(LS, DS) == \E l \in LS, d \in DS : Statement(GotoForm(l, d))

ContinueStmt(LS) == \E l \in LS : Statement(Labeled("kw_CONTINUE", l))

StopStmt(LS) == \E l \in LS : Statement(Labeled("kw_STOP", l))

AssignmentStmt(LS) == \E l \in LS : Statement(AssignmentForm(l))

DoStmt(LS, TS) == \E l \in LS, t \in TS : Statement(DoForm(l, t, 1))

DoWhileStmt(LS) == \E l \in LS : Statement(Labeled("kw_DOWHILE", l))

IfThenStmt(LS) == \E l \in LS : Statement(IfThenForm(l))

ElseIfStmt(LS) == \E l \in LS : Statement([Labeled("kw_ELSEIF", l) EXCEPT !.hasThen = TRUE])

ElseStmt(LS) == \E l \in LS : Statement(Labeled("kw_ELSE", l))

EndIfStmt(LS) == \E l \in LS : Statement(Labeled("kw_ENDIF", l))

EndDoStmt(LS) == \E l \in LS : Statement(Labeled("kw_ENDDO", l))

\* The statements of the parser's specification: every kind, well formed.
WellFormedForms ==
  {GotoForm(0, 1), Labeled("kw_GOTO", 0), AssignedGotoForm(0, <<1>>),
   AssignForm(0, 1), Labeled("kw_CONTINUE", 0), Labeled("kw_CONTINUE", 1),
   Labeled("kw_STOP", 0), Labeled("kw_RETURN", 0), Labeled("kw_RETURN", 1),
   Labeled("kw_CALL", 0),
   Labeled("kw_PRINT", 0), Labeled("kw_WRITE", 0), AssignmentForm(0),
   IfThenForm(0), [Labeled("kw_ELSEIF", 0) EXCEPT !.hasThen = TRUE],
   Labeled("kw_ELSE", 0), Labeled("kw_ENDIF", 0), DoForm(0, 1, 1),
   DoForm(0, 0, 1), Labeled("kw_DOWHILE", 0), Labeled("kw_ENDDO", 0)}

\* The action statements tried after IF (...), two of them malformed.
ActionForms ==
  {GotoForm(0, 1), Labeled("kw_CONTINUE", 0), AssignmentForm(0), IfThenForm(0),
   Labeled("kw_ELSE", 0), Labeled("kw_ENDIF", 0), DoForm(0, 0, 1),
   Malformed(AssignmentForm(0), "rhs"),
   Malformed(AssignedGotoForm(0, <<1>>), "rparen")}

\* Statements with a token missing or a sub-parse failed.
MalformedForms ==
  {Malformed(Labeled("kw_IF", 0), "lparen"), Labeled("kw_IF", 0),
   Malformed(Labeled("kw_GOTO", 0), "var"),
   Malformed(AssignedGotoForm(0, <<1>>), "rparen"),
   Malformed(AssignedGotoForm(0, <<>>), "listLabel"),
   Malformed(AssignForm(0, 1), "to"),
   Malformed(DoForm(0, 1, 1), "equal"),
   Malformed(Labeled("kw_DOWHILE", 0), "lparen"),
   Malformed(Labeled("kw_ELSEIF", 0), "then"),
   Malformed(Labeled("identifier", 0), "equal"),
   Malformed(AssignmentForm(0), "rhs"),
   Malformed(Labeled("kw_CALL", 0), "ident"),
   Malformed(Labeled("kw_CALL", 0), "lparen"),
   Malformed(Labeled("kw_PRINT", 0), "comma"),
   Malformed(Labeled("kw_WRITE", 0), "lparen"),
   Malformed(Labeled("kw_WRITE", 0), "rparen")}

LogicalIfForms == {IfForm(l, a) : l \in {0, 1}, a \in ActionForms}

ParsedStmt ==
  /\ Len(stmts) < MaxParsed
  /\ \E f \in WellFormedForms \cup LogicalIfForms \cup MalformedForms : Statement(f)

\* One statement of the body goes to its semantic action directly; the form
\* records its operands.
Acted(r, f) ==
  /\ phase = "body"
  /\ Len(r.s.stmts) <= MaxStmts
  /\ Install(r.s)
  /\ last' = [op |-> "stmt", form |-> f, Invalid |-> r.Invalid,
              Result |-> r.Result]
  /\ UNCHANGED <<phase, unit>>

AssignedGotoStmt(LS, TS) ==
  \E l \in LS, T \in TS : Statement(AssignedGotoForm(l, T))

ComputedGotoStmt(LS, TS) ==
  \E l \in LS, T \in TS :
    Acted(ActOnComputedGotoStmt(Cur, T, l),
          [Labeled("kw_GOTO", l) EXCEPT !.paren = TRUE, !.list = T, !.var = 0])

\* The label lists of the assigned and computed GOTOs.
LabelLists == {<<1>>, <<2>>, <<1, 2>>}

CycleStmt(NS, LS) ==
  \E n \in NS, l \in LS :
    Acted(ActOnCycleStmt(Cur, n, l), [Labeled("kw_CYCLE", l) EXCEPT !.name = n])

ExitStmt(NS, LS) ==
  \E n \in NS, l \in LS :
    Acted(ActOnExitStmt(Cur, n, l), [Labeled("kw_EXIT", l) EXCEPT !.name = n])

DoVarStmt(TS, VS) == \E t \in TS, v \in VS : Statement(DoForm(0, t, v))

NamedDoStmt(NS, TS) ==
  \E n \in NS, t \in TS : Statement([DoForm(0, t, 1) EXCEPT !.name = n])

NamedDoWhileStmt(NS) ==
  \E n \in NS : Statement([Labeled("kw_DOWHILE", 0) EXCEPT !.name = n])

NamedIfThenStmt(NS) ==
  \E n \in NS : Statement([IfThenForm(0) EXCEPT !.name = n])

\* Block statements with construct names.
Named(f, n) == [f EXCEPT !.name = n]

NamedForms ==
  {Named(IfThenForm(0), n) : n \in {0, 1}}
    \cup {Named(DoForm(0, 0, 1), n) : n \in {0, 1}}
    \cup {Named([Labeled("kw_ELSEIF", 0) EXCEPT !.hasThen = TRUE], n) : n \in NameOpt}
    \cup {Named(Labeled(tok, 0), n) :
            tok \in {"kw_ELSE", "kw_ENDIF", "kw_ENDDO"}, n \in NameOpt}

NamedStmt == \E f \in NamedForms : Statement(f)

\* --------------------------------------------------------- specifications
\* Labels and GOTOs: forward references, declarations, the end of the unit.
NextLabels ==
  \/ MainProgram
  \/ EndProgramUnit
  \/ GotoStmt(LabelOpt, Labels)
  \/ ContinueStmt(LabelOpt)
  \/ DoStmt({0}, Labels)

SpecLabels == Init /\ [][NextLabels]_vars

\* Labeled DO loops and the statements that end them.
NextDo ==
  \/ MainProgram
  \/ DoStmt({0, 1}, LabelOpt)
  \/ ContinueStmt(Labels)
  \/ GotoStmt(Labels, {1})
  \/ IfThenStmt({0, 1})
  \/ ElseStmt({1})
  \/ EndDoStmt({0, 1})

SpecDo == Init /\ [][NextDo]_vars

\* The parser: every statement kind, the IF without THEN, malformed statements.
NextParse ==
  \/ MainProgram
  \/ SubProgram
  \/ EndProgramUnit
  \/ ParsedStmt

SpecParse == Init /\ [][NextParse]_vars

\* IF blocks and the loops left open inside them.
NextIf ==
  \/ MainProgram
  \/ EndProgramUnit
  \/ ContinueStmt({1})
  \/ IfThenStmt({0})
  \/ DoStmt({0}, LabelOpt)
  \/ DoWhileStmt({0})
  \/ ElseIfStmt({0})
  \/ ElseStmt({0})
  \/ EndIfStmt({0})
  \/ EndDoStmt({0})

SpecIf == Init /\ [][NextIf]_vars

\* Named IF and DO blocks and their closers.
NextNames ==
  \/ MainProgram
  \/ NamedStmt

SpecNames == Init /\ [][NextNames]_vars

\* The three GOTO statements and the statements their labels name.
NextGoto ==
  \/ MainProgram
  \/ ContinueStmt(Labels)
  \/ GotoStmt({0}, Labels)
  \/ AssignedGotoStmt({0}, LabelLists)
  \/ ComputedGotoStmt({0}, LabelLists)

SpecGoto == Init /\ [][NextGoto]_vars

\* One well-formed statement of every kind of the body; CYCLE, EXIT and the
\* computed GOTO as the tokens the parser meets (no variable follows GO TO in
\* a computed GOTO), and a keyword used as the variable of an assignment.
CycleForm(l) == Labeled("kw_CYCLE", l)
ExitForm(l) == Labeled("kw_EXIT", l)
ComputedGotoForm(l, L) ==
  [Labeled("kw_GOTO", l) EXCEPT !.paren = TRUE, !.list = L, !.var = 0]

KindForms ==
  {AssignmentForm(0), [Labeled("kw_IF", 0) EXCEPT !.nextEq = TRUE],
   AssignForm(0, 1), GotoForm(0, 1), AssignedGotoForm(0, <<1>>),
   ComputedGotoForm(0, <<1>>), IfThenForm(0),
   IfForm(0, Labeled("kw_CONTINUE", 0)),
   [Labeled("kw_ELSEIF", 0) EXCEPT !.hasThen = TRUE], Labeled("kw_ELSE", 0),
   Labeled("kw_ENDIF", 0), DoForm(0, 1, 1), DoForm(0, 0, 1),
   Labeled("kw_DOWHILE", 0), Labeled("kw_ENDDO", 0), CycleForm(0), ExitForm(0),
   Labeled("kw_CONTINUE", 1), Labeled("kw_STOP", 0), Labeled("kw_RETURN", 0),
   Labeled("kw_CALL", 0)}

RoutedStmt ==
  /\ Len(stmts) < MaxParsed
  /\ \E f \in KindForms : Statement(f)

NextRoute ==
  \/ MainProgram
  \/ SubProgram
  \/ RoutedStmt

SpecRoute == Init /\ [][NextRoute]_vars

\* Statements of every kind that carry label 1, after DOs that await it.
TerminatorForms ==
  {GotoForm(1, 2), AssignedGotoForm(1, <<2>>), IfThenForm(1),
   [Labeled("kw_ELSEIF", 1) EXCEPT !.hasThen = TRUE], Labeled("kw_ELSE", 1),
   Labeled("kw_ENDIF", 1), Labeled("kw_RETURN", 1), Labeled("kw_STOP", 1),
   DoForm(1, 0, 1), Labeled("kw_CONTINUE", 1),
   IfForm(1, Labeled("kw_CONTINUE", 0)), IfForm(1, AssignmentForm(0))}

TerminatorStmt == \E f \in TerminatorForms : Statement(f)

NextTerminators ==
  \/ MainProgram
  \/ SubProgram
  \/ DoStmt({0}, {1})
  \/ IfThenStmt({0})
  \/ TerminatorStmt

SpecTerminators == Init /\ [][NextTerminators]_vars

\* Every statement with a patchable link, and the labeled statements that
\* resolve them.
AssignLabelStmt(LS, DS) == \E l \in LS, d \in DS : Statement(AssignForm(l, d))

NextLinks ==
  \/ MainProgram
  \/ ContinueStmt(Labels)
  \/ GotoStmt({0, 1}, {1})
  \/ AssignLabelStmt({0}, {1})
  \/ AssignedGotoStmt({0}, {<<1, 2>>})
  \/ ComputedGotoStmt({0}, {<<1, 1>>, <<2, 1>>})
  \/ DoStmt({0, 1}, {1})

SpecLinks == Init /\ [][NextLinks]_vars

\* Every statement with label slots, the labeled statements that resolve
\* them, and the end of the unit.
NextSlots ==
  \/ MainProgram
  \/ EndProgramUnit
  \/ ContinueStmt(Labels)
  \/ GotoStmt({0, 1}, {1})
  \/ AssignLabelStmt({0}, {1, 2})
  \/ AssignedGotoStmt({0}, {<<1, 2>>})
  \/ ComputedGotoStmt({0}, {<<1, 1>>, <<2, 1>>})

SpecSlots == Init /\ [][NextSlots]_vars

\* Declarations and references of label values around the largest key.
NextKeys ==
  \/ MainProgram
  \/ ContinueStmt(WideLabels)
  \/ GotoStmt({0}, WideLabels)

SpecKeys == Init /\ [][NextKeys]_vars

\* DO loops over several variables, closed by END DO, by their terminal
\* statement, by recovery or by the end of the unit.
NextDoVars ==
  \/ MainProgram
  \/ EndProgramUnit
  \/ DoVarStmt({0, 1}, DoVars)
  \/ ContinueStmt({1})
  \/ IfThenStmt({0})
  \/ EndIfStmt({0})
  \/ EndDoStmt({0})

SpecDoVars == Init /\ [][NextDoVars]_vars

\* CYCLE and EXIT inside named and unnamed loops and IF blocks.
NextLoops ==
  \/ MainProgram
  \/ NamedDoStmt({0, 1}, {0})
  \/ NamedDoStmt({0}, {1})
  \/ NamedDoWhileStmt({0, 1})
  \/ NamedIfThenStmt({0, 1})
  \/ CycleStmt(NameOpt, {0, 1})
  \/ ExitStmt(NameOpt, {0})

SpecLoops == Init /\ [][NextLoops]_vars

\* ------------------------------------------------------------- properties
Count(seq, id) == Cardinality({i \in DOMAIN seq : seq[i].id = id})

Ids == 1..Len(stmts)

\* The statements created by the step just taken (in an action formula).
Built == (Len(stmts) + 1)..Len(stmts')

IsDeclared(L) == \E d \in StmtLabelDeclsInScope : d.Key = GetStmtLabelValue(L)

\* The statements that carry label L.
Carrying(L) == {d \in Ids : stmts[d].label = L}

\* C1: once the unit has been parsed, every GOTO that referenced a label
\* before the one statement that carries it was declared has that statement
\* as its destination, written by exactly one patch.
C1_ForwardGotosResolved ==
  phase = "done" =>
    \A g \in Ids : \A d \in Ids :
      (/\ stmts[g].kind = "Goto"
       /\ Carrying(stmts[g].refs[1]) = {d}
       /\ d >= g)
      => stmts[g].dest = d /\ stmts[g].patched = 1

C1_Witness ==
  /\ phase = "done"
  /\ \E g1 \in Ids, g2 \in Ids, d \in Ids :
       /\ g1 < g2 /\ g2 < d
       /\ stmts[g1].kind = "Goto" /\ stmts[g2].kind = "Goto"
       /\ stmts[g1].refs = stmts[g2].refs
       /\ Carrying(stmts[g1].refs[1]) = {d}
       /\ stmts[g1].dest = d /\ stmts[g2].dest = d

\* C3: a step that builds a statement carrying a label that is already
\* declared reports exactly one err_redefinition_of_stmt_label, and the label
\* still resolves to the statement of the first declaration.
C3_DuplicateLabel ==
  [][\A L \in Labels :
       (/\ last'.op = "stmt"
        /\ \E i \in Built : stmts'[i].label = L
        /\ IsDeclared(L))
       => /\ Count(Diags', "err_redefinition_of_stmt_label") = 1
          /\ \E d \in StmtLabelDeclsInScope :
               d.Key = GetStmtLabelValue(L) /\ Resolve(Cur, L)' = d.Statement
          /\ Resolve(Cur, L)' < Len(stmts) + 1]_vars

C3_Witness ==
  /\ last.op = "stmt"
  /\ Count(Diags, "err_redefinition_of_stmt_label") = 1
  /\ \E i \in Ids :
       /\ i < last.Result
       /\ stmts[i].label = stmts[last.Result].label
       /\ Resolve(Cur, stmts[i].label) = i

\* C4: while a unit is parsed, if the label of every reference made so far
\* (GOTO destinations, DO terminators) is declared, no forward reference is
\* pending.
AllReferencesDeclared ==
  \A i \in Ids : \A k \in DOMAIN stmts[i].refs : IsDeclared(stmts[i].refs[k])

C4_NothingPending ==
  (phase = "body" /\ AllReferencesDeclared) => ForwardStmtLabelDeclsInScope = <<>>

C4_Witness ==
  /\ phase = "body"
  /\ AllReferencesDeclared
  /\ ForwardStmtLabelDeclsInScope = <<>>
  /\ \E g1 \in Ids, g2 \in Ids :
       /\ g1 # g2
       /\ stmts[g1].kind = "Goto" /\ stmts[g2].kind = "Goto"
       /\ stmts[g1].patched = 1 /\ stmts[g2].patched = 1
       /\ stmts[g1].dest # stmts[g2].dest

OnStack(S) == \E J \in DOMAIN ControlFlowStack : ControlFlowStack[J].Statement = S

PendingFor(S) ==
  \E k \in DOMAIN ForwardStmtLabelDeclsInScope :
    ForwardStmtLabelDeclsInScope[k].Statement = S

PendingLabel(L) ==
  \E k \in DOMAIN ForwardStmtLabelDeclsInScope :
    ForwardStmtLabelDeclsInScope[k].StmtLabel = L

\* C2: when a statement carrying label L, not declared before, is built while
\* a DO awaiting L is on the open-construct stack, then afterwards that DO's
\* terminating statement is the new statement, the DO is off the stack and
\* no forward reference to L is pending.
C2_LabeledDoClosed ==
  [][\A D \in Ids, L \in Labels, S \in Built :
       (/\ last'.op = "stmt" /\ ~last'.Invalid /\ last'.Result = S
        /\ \E I \in DOMAIN ControlFlowStack : ControlFlowStack[I] = Entry(D, L)
        /\ ~IsDeclared(L)
        /\ stmts'[S].label = L)
       => /\ stmts'[D].term = S
          /\ ~OnStack(D)'
          /\ ~PendingLabel(L)']_vars

\* The innermost DO on the stack that awaits label L; 0 when there is none.
InnermostAwaiting(L) ==
  LET W == {I \in DOMAIN ControlFlowStack :
              /\ stmts[ControlFlowStack[I].Statement].kind = "Do"
              /\ ControlFlowStack[I].ExpectedEndDoLabel = L} IN
  IF W = {} THEN 0
  ELSE ControlFlowStack[CHOOSE I \in W : \A J \in W : J <= I].Statement

\* The statement kinds that are never admissible as the end of a labeled DO
\* and that leave the stack alone before their label is declared.
NeverAdmissible == {"Goto", "Stop", "Do", "DoWhile", "If"}

\* C10: when a GOTO, STOP, DO, DO WHILE or IF-THEN statement carries the label
\* L, not declared before, that a DO on the stack awaits, the step reports
\* exactly one err_invalid_do_terminating_stmt and the innermost DO awaiting L
\* has the new statement as its terminating statement, has no forward
\* reference pending and is off the stack; and any step that reports
\* err_invalid_do_terminating_stmt reports it once and has closed, in that
\* way, a DO that was on the stack.
C10_InvalidDoTerminator ==
  [][/\ \A D \in Ids, L \in Labels, S \in Built :
          (/\ last'.op = "stmt" /\ last'.Result = S
           /\ stmts'[S].label = L
           /\ stmts'[S].kind \in NeverAdmissible
           /\ ~IsDeclared(L)
           /\ InnermostAwaiting(L) = D)
          => /\ Count(Diags', "err_invalid_do_terminating_stmt") = 1
             /\ stmts'[D].term = S
             /\ ~PendingFor(D)'
             /\ ~OnStack(D)'
     /\ Count(Diags', "err_invalid_do_terminating_stmt") > 0
          => /\ Count(Diags', "err_invalid_do_terminating_stmt") = 1
             /\ \E D \in Ids :
                  /\ OnStack(D)
                  /\ stmts[D].term = 0
                  /\ stmts'[D].term = last'.Result
                  /\ stmts'[last'.Result].label = stmts[D].refs[1]
                  /\ ~PendingFor(D)'
                  /\ ~OnStack(D)']_vars

\* A GOTO has just ended the labeled DO that was open, with the diagnostic.
C10_Witness ==
  /\ last.op = "stmt"
  /\ Count(Diags, "err_invalid_do_terminating_stmt") = 1
  /\ \E D \in Ids :
       /\ stmts[D].kind = "Do"
       /\ stmts[last.Result].kind = "Goto"
       /\ stmts[D].refs = <<stmts[last.Result].label>>
       /\ stmts[D].term = last.Result
       /\ ~OnStack(D)
       /\ ~PendingFor(D)

\* ------------------------------------------------- properties: the parser
\* IF (...) action-stmt, without THEN.
IsLogicalIf(f) == f.tok = "kw_IF" /\ ~f.hasThen

\* The statement, or the action statement of its IF, has a token missing or
\* a sub-parse failed.
Defective(f) ==
  \/ f.bad # "none"
  \/ /\ IsLogicalIf(f)
     /\ \/ f.then = <<>>
        \/ f.then[1].bad # "none"

InBody(S) == \E i \in DOMAIN StmtList : StmtList[i] = S

\* The action statements that neither open nor continue nor close a block.
PlainTokens == {"kw_GOTO", "kw_CONTINUE", "identifier"}

C7_ParseFailureAtomic ==
  [][(last'.op = "stmt" /\ Defective(last'.form))
     => /\ Actions' = <<>>
        /\ UNCHANGED <<stmts, StmtList, ControlFlowStack, StmtLabelDeclsInScope,
                       ForwardStmtLabelDeclsInScope>>]_vars

\* C8 as stated: a step whose statement is well formed invokes exactly one
\* semantic action.
C8_ExactlyOneAction ==
  [][(last'.op = "stmt" /\ ~Defective(last'.form)) => Len(Actions') = 1]_vars

\* C8: a step whose statement is well formed invokes exactly one semantic
\* action, unless the statement is IF (...) action-stmt: then it invokes
\* ActOnIfStmt, the actions of the action statement and ActOnEndIfStmt, three
\* in all when the action statement is not again an IF without THEN.
C8_ActionsPerStatement ==
  [][(last'.op = "stmt" /\ ~Defective(last'.form))
     => IF IsLogicalIf(last'.form)
        THEN /\ Len(Actions') >= 3
             /\ Actions'[1] = "ActOnIfStmt"
             /\ Actions'[Len(Actions')] = "ActOnEndIfStmt"
             /\ ~IsLogicalIf(last'.form.then[1]) => Len(Actions') = 3
        ELSE Len(Actions') = 1]_vars

C8_Witness ==
  /\ last.op = "stmt" /\ ~last.Invalid
  /\ IsLogicalIf(last.form) /\ ~Defective(last.form)
  /\ Actions = <<"ActOnIfStmt", "ActOnGotoStmt", "ActOnEndIfStmt">>

\* ------------------------------------------- properties: unwinding to IF
Closers == {"kw_ELSEIF", "kw_ELSE", "kw_ENDIF"}

CloserName(tok) ==
  CASE tok = "kw_ELSEIF" -> "else if"
    [] tok = "kw_ELSE" -> "else"
    [] OTHER -> "end if"

\* The index of the innermost IF entry of the stack; 0 when there is none.
InnermostIf ==
  LET W == {I \in DOMAIN ControlFlowStack :
              stmts[ControlFlowStack[I].Statement].kind = "If"} IN
  IF W = {} THEN 0 ELSE CHOOSE I \in W : \A J \in W : J <= I

\* What is reported for a loop entry left open.
Unterminated(e) ==
  IF e.ExpectedEndDoLabel # 0
  THEN Diag("err_expected_stmt_label_end_do", ToString(e.ExpectedEndDoLabel))
  ELSE Diag("err_expected_kw", "end do")

\* C9: a step of an unlabeled ELSE IF, ELSE or END IF reports the entries
\* above the innermost IF entry as unterminated, each once, from the top down,
\* and pops them.  With an IF entry on the stack no err_stmt_not_in_if is
\* reported and the unwinding stops at that entry: ELSE keeps it on top,
\* END IF pops it afterwards, ELSE IF replaces it by the new IfStmt.  With
\* none, every entry is popped and err_stmt_not_in_if is reported once.
C9_UnwindUntilIf ==
  [][(/\ last'.op = "stmt"
      /\ last'.form.tok \in Closers
      /\ last'.form.bad = "none"
      /\ last'.form.label = 0)
     => LET k == InnermostIf
            n == Len(ControlFlowStack)
            Below == SubSeq(ControlFlowStack, 1, k - 1) IN
        /\ Len(Diags') >= 2 * (n - k)
        /\ \A j \in 1..(n - k) :
             /\ Diags'[2 * j - 1] = Unterminated(ControlFlowStack[n + 1 - j])
             /\ Diags'[2 * j] = Diag("note_matching", "do")
        /\ Count(Diags', "note_matching") = n - k
        /\ IF k # 0
           THEN /\ Count(Diags', "err_stmt_not_in_if") = 0
                /\ CASE last'.form.tok = "kw_ELSE" ->
                          /\ ControlFlowStack' = SubSeq(ControlFlowStack, 1, k)
                          /\ stmts'[ControlFlowStack[k].Statement].thenClosed
                     [] last'.form.tok = "kw_ENDIF" -> ControlFlowStack' = Below
                     [] OTHER ->
                          /\ ControlFlowStack' = Append(Below, Entry(last'.Result, 0))
                          /\ stmts'[ControlFlowStack[k].Statement].elseStmt
                               = last'.Result
           ELSE /\ Count(Diags', "err_stmt_not_in_if") = 1
                /\ Diags'[Len(Diags')]
                     = Diag("err_stmt_not_in_if", CloserName(last'.form.tok))
                /\ ControlFlowStack' =
                     IF last'.form.tok = "kw_ELSEIF"
                     THEN <<Entry(last'.Result, 0)>> ELSE <<>>]_vars

\* END IF has closed an IF block in which two loops were still open.
C9_Witness ==
  /\ last.op = "stmt"
  /\ last.form.tok = "kw_ENDIF"
  /\ Count(Diags, "note_matching") = 2
  /\ Count(Diags, "err_stmt_not_in_if") = 0
  /\ ControlFlowStack = <<>>
  /\ Len(stmts) = 4
  /\ stmts[1].kind = "If" /\ stmts[2].kind = "Do" /\ stmts[3].kind = "Do"

\* C11: after any statement, when label L resolves to a statement that is
\* itself a GOTO, every GOTO whose destination is L, built before or after
\* it, has that statement as its destination and the statement is marked as
\* a GOTO target; this does not depend on a DO awaiting L, and when the
\* labeled GOTO has just been built while a DO awaited L the step reports
\* err_invalid_do_terminating_stmt exactly once.
C11_GotoToLabeledGoto ==
  [][\A L \in Labels, d \in 1..Len(stmts') :
       (/\ last'.op = "stmt"
        /\ stmts'[d].kind = "Goto"
        /\ Resolve(Cur, L)' = d)
       => /\ \A g \in 1..Len(stmts') :
               (stmts'[g].kind = "Goto" /\ stmts'[g].refs = <<L>>)
               => stmts'[g].dest = d /\ stmts'[d].usedAsGotoTarget
          /\ (d \in Built /\ InnermostAwaiting(L) # 0)
               => Count(Diags', "err_invalid_do_terminating_stmt") = 1]_vars

\* A labeled GOTO has ended a DO with the diagnostic, and the GOTO built
\* before it has it as its destination.
C11_Witness ==
  /\ last.op = "stmt"
  /\ Count(Diags, "err_invalid_do_terminating_stmt") = 1
  /\ \E g \in Ids, D \in Ids :
       /\ g < last.Result
       /\ stmts[last.Result].kind = "Goto"
       /\ stmts[g].kind = "Goto"
       /\ stmts[g].refs = <<stmts[last.Result].label>>
       /\ stmts[g].dest = last.Result
       /\ stmts[D].kind = "Do"
       /\ stmts[D].term = last.Result

\* A GOTO built after the labeled GOTO, with no DO in the unit, has it as
\* its destination.
C11_WitnessBackward ==
  /\ last.op = "stmt"
  /\ \E d \in Ids :
       /\ d < last.Result
       /\ stmts[d].kind = "Goto" /\ stmts[last.Result].kind = "Goto"
       /\ stmts[last.Result].refs = <<stmts[d].label>>
       /\ stmts[last.Result].dest = d
       /\ \A i \in Ids : stmts[i].kind # "Do"

\* The statement kinds named inadmissible as the end of a labeled DO.
InadmissibleKinds ==
  {"Goto", "AssignedGoto", "Stop", "Do", "DoWhile", "ConstructPart"}

\* The action statements that make an IF without THEN inadmissible.
InadmissibleActionTokens ==
  {"kw_DO", "kw_DOWHILE", "kw_IF", "kw_ELSEIF", "kw_ELSE", "kw_ENDIF",
   "kw_ENDDO"}

\* C12 as stated: when a well-formed statement carries the label L, not
\* declared before, that a DO on the stack awaits, the step reports
\* err_invalid_do_terminating_stmt exactly when the statement is a GOTO, an
\* assigned GOTO, a STOP, a DO, a DO WHILE or a block part, or an IF without
\* THEN whose action statement is a DO, a DO WHILE, an IF or a block part;
\* a statement of any other kind is admitted without that diagnostic.
C12_AdmissibleByKind ==
  [][\A L \in Labels, S \in Built :
       (/\ last'.op = "stmt" /\ ~last'.Invalid /\ last'.Result = S
        /\ ~Defective(last'.form)
        /\ stmts'[S].label = L
        /\ ~IsDeclared(L)
        /\ InnermostAwaiting(L) # 0)
       => (Count(Diags', "err_invalid_do_terminating_stmt") > 0
           <=> \/ stmts'[S].kind \in InadmissibleKinds
               \/ /\ IsLogicalIf(last'.form)
                  /\ last'.form.then[1].tok \in InadmissibleActionTokens)]_vars

\* ---------------------------------------------- properties: construct names
BlockClosers == {"kw_ELSEIF", "kw_ELSE", "kw_ENDIF", "kw_ENDDO"}

\* The innermost loop entry that END DO closes; 0 when there is none.
InnermostLoop ==
  LET W == {I \in DOMAIN ControlFlowStack :
              \/ stmts[ControlFlowStack[I].Statement].kind = "DoWhile"
              \/ /\ stmts[ControlFlowStack[I].Statement].kind = "Do"
                 /\ ControlFlowStack[I].ExpectedEndDoLabel = 0} IN
  IF W = {} THEN 0 ELSE CHOOSE I \in W : \A J \in W : J <= I

\* The statement that opened the construct a closer of this token closes.
Opener(tok) ==
  LET k == IF tok = "kw_ENDDO" THEN InnermostLoop ELSE InnermostIf IN
  IF k = 0 THEN 0 ELSE ControlFlowStack[k].Statement

\* C13 as stated: a closer whose name differs from the opener's, or that
\* names an opener without a name, reports the diagnostic of a differing name
\* (err_expected_construct_name) once; a closer without a name on a named
\* opener reports one diagnostic of another kind; names both absent or equal
\* report nothing.
C13_NameMatchAsStated ==
  [][\A O \in Ids :
       (/\ last'.op = "stmt"
        /\ last'.form.tok \in BlockClosers
        /\ O = Opener(last'.form.tok))
       => LET n == last'.form.name
              e == stmts[O].name
              Expected == Count(Diags', "err_expected_construct_name")
              Invalid == Count(Diags', "err_use_of_invalid_construct_name") IN
          /\ (n # 0 /\ (e = 0 \/ e # n)) => (Expected = 1 /\ Invalid = 0)
          /\ (n = 0 /\ e # 0) => (Expected = 0 /\ Invalid = 1)
          /\ (n = e) => (Expected = 0 /\ Invalid = 0)]_vars

\* C13: a closer that names an opener without a name reports
\* err_use_of_invalid_construct_name once, with no note; a closer whose name
\* differs from the opener's name, and a closer without a name on a named
\* opener, both report err_expected_construct_name once, with the opener's
\* name, followed by note_matching_ident; names both absent or equal report
\* none of the three.
C13_NameMatch ==
  [][\A O \in Ids :
       (/\ last'.op = "stmt"
        /\ last'.form.tok \in BlockClosers
        /\ O = Opener(last'.form.tok))
       => LET n == last'.form.name
              e == stmts[O].name
              Expected == Count(Diags', "err_expected_construct_name")
              Invalid == Count(Diags', "err_use_of_invalid_construct_name")
              Notes == Count(Diags', "note_matching_ident") IN
          /\ (n # 0 /\ e = 0) => (Expected = 0 /\ Invalid = 1 /\ Notes = 0)
          /\ ((n # 0 /\ e # 0 /\ e # n) \/ (n = 0 /\ e # 0))
               => /\ Expected = 1 /\ Invalid = 0 /\ Notes = 1
                  /\ \E k \in DOMAIN Diags' :
                       /\ k < Len(Diags')
                       /\ Diags'[k] = Diag("err_expected_construct_name", ToString(e))
                       /\ Diags'[k + 1] = Diag("note_matching_ident", ToString(e))
          /\ (n = e) => (Expected = 0 /\ Invalid = 0 /\ Notes = 0)]_vars

\* END IF without a name has closed a named IF: the diagnostic of a differing
\* name is reported.
C13_Witness ==
  /\ last.op = "stmt"
  /\ last.form.tok = "kw_ENDIF"
  /\ last.form.name = 0
  /\ \E O \in Ids :
       /\ stmts[O].kind = "If" /\ stmts[O].name = 1
       /\ ~OnStack(O)
  /\ Diags = <<Diag("err_expected_construct_name", "1"),
               Diag("note_matching_ident", "1")>>

\* The state after the statements of a sequence have been parsed in order;
\* the diagnostics of all of them are kept.
RECURSIVE Feed(_, _)
Feed(s, forms) ==
  IF forms = <<>> THEN s
  ELSE Feed(ParseActionStmt(s, Head(forms)).s, Tail(forms))

\* IF (...) THEN, ELSE IF (...) THEN, ELSE, END IF, all with the name n.
IfChainForms(n) ==
  <<Named(IfThenForm(0), n),
    Named([Labeled("kw_ELSEIF", 0) EXCEPT !.hasThen = TRUE], n),
    Named(Labeled("kw_ELSE", 0), n),
    Named(Labeled("kw_ENDIF", 0), n)>>

\* C14: wherever in a body the four statements IF-THEN, ELSE IF-THEN, ELSE and
\* END IF are parsed in a row with one construct name, they report no
\* diagnostic, the opening IfStmt has the IfStmt of the ELSE IF as its
\* else-branch, which has none itself, no other statement's else-branch
\* changes, and the stack is afterwards what it was before the opening IF.
C14_NamedIfChain ==
  phase = "body" =>
    \A n \in Names :
      LET r == Feed(Cur, IfChainForms(n))
          I == Len(stmts) + 1 IN
      /\ Len(r.stmts) = Len(stmts) + 4
      /\ r.Diags = <<>>
      /\ r.stmts[I].kind = "If" /\ r.stmts[I + 1].kind = "If"
      /\ r.stmts[I].name = n /\ r.stmts[I + 1].name = n
      /\ r.stmts[I].elseStmt = I + 1
      /\ r.stmts[I + 1].elseStmt = 0
      /\ r.stmts[I + 2].part = "Else" /\ r.stmts[I + 3].part = "EndIf"
      /\ \A i \in Ids : r.stmts[i].elseStmt = stmts[i].elseStmt
      /\ r.ControlFlowStack = ControlFlowStack

\* The four statements, named 1, have been parsed at the start of a unit.
C14_Witness ==
  /\ phase = "body"
  /\ last.form = Named(Labeled("kw_ENDIF", 0), 1)
  /\ Len(stmts) = 4
  /\ LET r == Feed([Cur EXCEPT !.stmts = <<>>, !.StmtList = <<>>],
                   IfChainForms(1)) IN
     /\ stmts = r.stmts
     /\ StmtList = r.StmtList
     /\ ControlFlowStack = r.ControlFlowStack
  /\ stmts[1].elseStmt = 2
  /\ ControlFlowStack = <<>>
  /\ Diags = <<>>

\* ------------------------------------------------ properties: CYCLE, EXIT
LoopTokens == {"kw_CYCLE", "kw_EXIT"}

\* The index of the innermost DO or DO WHILE entry, of name n when n is a
\* name; 0 when there is none.
EnclosingLoop(n) ==
  LET W == {I \in DOMAIN ControlFlowStack :
              /\ stmts[ControlFlowStack[I].Statement].kind \in {"Do", "DoWhile"}
              /\ n # 0 => stmts[ControlFlowStack[I].Statement].name = n} IN
  IF W = {} THEN 0 ELSE CHOOSE I \in W : \A J \in W : J <= I

\* The index of the innermost DO entry awaiting label L; 0 when none.
AwaitingIndex(L) ==
  LET W == {I \in DOMAIN ControlFlowStack :
              /\ stmts[ControlFlowStack[I].Statement].kind = "Do"
              /\ ControlFlowStack[I].ExpectedEndDoLabel = L} IN
  IF W = {} THEN 0 ELSE CHOOSE I \in W : \A J \in W : J <= I

\* What a CYCLE or EXIT outside the loop it names (or outside any loop)
\* reports and builds.
NotInLoopReported(S) ==
  /\ Count(Diags', "err_stmt_not_in_named_loop")
       = IF last'.form.name # 0 THEN 1 ELSE 0
  /\ Count(Diags', "err_stmt_not_in_loop")
       = IF last'.form.name = 0 THEN 1 ELSE 0
  /\ stmts'[S].kind = IF last'.form.tok = "kw_CYCLE" THEN "Cycle" ELSE "Exit"
  /\ stmts'[S].loop = 0
  /\ StmtList' = Append(StmtList, S)

\* C15 as stated: a CYCLE or EXIT whose name matches no enclosing loop (or
\* that has no name while no loop is open) reports the one diagnostic of its
\* case, is built with no loop and appended, and leaves the stack unchanged.
C15_NotInLoopKeepsStack ==
  [][\A S \in Built :
       (/\ last'.op = "stmt" /\ last'.Result = S
        /\ last'.form.tok \in LoopTokens
        /\ EnclosingLoop(last'.form.name) = 0)
       => /\ NotInLoopReported(S)
          /\ ControlFlowStack' = ControlFlowStack]_vars

\* C15: a CYCLE or EXIT whose name matches no enclosing loop (or that has no
\* name while no loop is open) reports the one diagnostic of its case and is
\* built with no loop and appended.  The stack is unchanged unless the
\* statement carries a label, not declared before, that a DO on the stack
\* awaits: then that DO and the entries above it are popped.
C15_NotInLoop ==
  [][\A S \in Built :
       (/\ last'.op = "stmt" /\ last'.Result = S
        /\ last'.form.tok \in LoopTokens
        /\ EnclosingLoop(last'.form.name) = 0)
       => /\ NotInLoopReported(S)
          /\ ControlFlowStack' =
               IF /\ last'.form.label # 0
                  /\ ~IsDeclared(last'.form.label)
                  /\ AwaitingIndex(last'.form.label) # 0
               THEN SubSeq(ControlFlowStack, 1,
                           AwaitingIndex(last'.form.label) - 1)
               ELSE ControlFlowStack]_vars

\* A labeled CYCLE naming no enclosing loop has ended the DO awaiting its
\* label.
C15_Witness ==
  /\ last.op = "stmt"
  /\ last.form.tok = "kw_CYCLE"
  /\ last.form.name # 0
  /\ Diags = <<Diag("err_stmt_not_in_named_loop", "cycle")>>
  /\ stmts[last.Result].loop = 0
  /\ InBody(last.Result)
  /\ ControlFlowStack = <<>>
  /\ \E D \in Ids : stmts[D].kind = "Do" /\ stmts[D].term = last.Result

\* C16: a CYCLE or EXIT has as its loop the innermost DO or DO WHILE entry of
\* the stack (IF entries are passed over), of the statement's name when it has
\* one; an entry of another kind is never its loop, whatever its name; when
\* there is such an entry neither err_stmt_not_in_loop nor
\* err_stmt_not_in_named_loop is reported.
C16_LoopLookup ==
  [][\A S \in Built :
       (/\ last'.op = "stmt" /\ last'.Result = S
        /\ last'.form.tok \in LoopTokens)
       => LET k == EnclosingLoop(last'.form.name) IN
          /\ stmts'[S].loop = IF k = 0 THEN 0 ELSE ControlFlowStack[k].Statement
          /\ stmts'[S].loop # 0
               => /\ stmts'[stmts'[S].loop].kind \in {"Do", "DoWhile"}
                  /\ Count(Diags', "err_stmt_not_in_loop") = 0
                  /\ Count(Diags', "err_stmt_not_in_named_loop") = 0]_vars

\* A named CYCLE has found the loop of its name below an IF block of the
\* same name and a loop without that name.
C16_Witness ==
  /\ last.op = "stmt"
  /\ last.form.tok = "kw_CYCLE"
  /\ last.form.name = 1
  /\ Diags = <<>>
  /\ Len(ControlFlowStack) = 3
  /\ stmts[ControlFlowStack[1].Statement].kind \in {"Do", "DoWhile"}
  /\ stmts[ControlFlowStack[1].Statement].name = 1
  /\ stmts[ControlFlowStack[2].Statement].kind = "If"
  /\ stmts[ControlFlowStack[2].Statement].name = 1
  /\ stmts[ControlFlowStack[3].Statement].kind \in {"Do", "DoWhile"}
  /\ stmts[ControlFlowStack[3].Statement].name = 0
  /\ stmts[last.Result].loop = ControlFlowStack[1].Statement

\* ------------------------------------------ properties: implicit closing
\* The entries of the stack that the step removes.
Removed ==
  {I \in DOMAIN ControlFlowStack :
     \A J \in DOMAIN ControlFlowStack' :
       ControlFlowStack'[J].Statement # ControlFlowStack[I].Statement}

\* The entries that the statement of the step closes by its keyword or by
\* its label.
ClosedProperly ==
  IF last'.op # "stmt" THEN {}
  ELSE ((IF last'.form.tok \in {"kw_ENDIF", "kw_ELSEIF"} THEN {InnermostIf}
         ELSE IF last'.form.tok = "kw_ENDDO" THEN {InnermostLoop}
         ELSE {})
        \cup (IF last'.form.label # 0 /\ ~IsDeclared(last'.form.label)
              THEN {AwaitingIndex(last'.form.label)} ELSE {})) \ {0}

IsIfEntry(I) == stmts[ControlFlowStack[I].Statement].kind = "If"

EndIfExpected == Diag("err_expected_kw", "end if")

\* C17: at a statement or at the end of the unit, every IF entry that leaves
\* the stack without being closed by END IF or continued by ELSE IF is
\* reported once: err_expected_kw with 'end if', followed by note_matching
\* with 'if'; nothing else is reported with 'end if' or 'if'.
C17_UnterminatedIf ==
  [][last'.op \in {"stmt", "end"} =>
       LET Implicit == {I \in Removed \ ClosedProperly : IsIfEntry(I)} IN
       /\ Cardinality({k \in DOMAIN Diags' : Diags'[k] = EndIfExpected})
            = Cardinality(Implicit)
       /\ Cardinality({k \in DOMAIN Diags' :
                         Diags'[k] = Diag("note_matching", "if")})
            = Cardinality(Implicit)
       /\ \A k \in DOMAIN Diags' :
            Diags'[k] = EndIfExpected
            => k < Len(Diags') /\ Diags'[k + 1] = Diag("note_matching", "if")]_vars

\* The unit has ended with one IF block open.
C17_Witness ==
  /\ last.op = "end"
  /\ Cardinality({i \in Ids : stmts[i].kind = "If"}) = 1
  /\ \A i \in Ids : stmts[i].kind \in {"If", "Continue"}
  /\ Diags = <<EndIfExpected, Diag("note_matching", "if")>>
  /\ ControlFlowStack = <<>>

\* END DO has closed a loop in which an IF block was still open.
C17_WitnessUnwinding ==
  /\ last.op = "stmt"
  /\ last.form.tok = "kw_ENDDO"
  /\ Diags = <<EndIfExpected, Diag("note_matching", "if")>>
  /\ ControlFlowStack = <<>>

\* C20: a statement removes entries from the top of the stack only: what
\* stays is a prefix of the old stack, below everything removed.  Every entry
\* removed that the statement does not close by its keyword or its label is
\* reported as unterminated, a DO awaiting a label with
\* err_expected_stmt_label_end_do and that label; there are as many
\* note_matching notes as such entries.
C20_StackDiscipline ==
  [][last'.op = "stmt" =>
       LET Implicit == Removed \ ClosedProperly IN
       /\ \E k \in 0..Len(ControlFlowStack) :
            /\ k <= Len(ControlFlowStack')
            /\ SubSeq(ControlFlowStack', 1, k) = SubSeq(ControlFlowStack, 1, k)
            /\ Removed = (k + 1)..Len(ControlFlowStack)
       /\ Count(Diags', "note_matching") = Cardinality(Implicit)
       /\ \A I \in Implicit :
            \E k \in DOMAIN Diags' :
              Diags'[k] = IF IsIfEntry(I) THEN EndIfExpected
                          ELSE Unterminated(ControlFlowStack[I])
       /\ \A L \in Labels :
            Cardinality({k \in DOMAIN Diags' :
               Diags'[k] = Diag("err_expected_stmt_label_end_do", ToString(L))})
            = Cardinality({I \in Implicit :
                             ControlFlowStack[I].ExpectedEndDoLabel = L})]_vars

\* The statement labeled 1 has ended the DO awaiting 1; the DO awaiting 2
\* that was open inside it has been reported and popped.
C20_Witness ==
  /\ last.op = "stmt"
  /\ last.form.tok = "kw_CONTINUE"
  /\ Diags = <<Diag("err_expected_stmt_label_end_do", "2"),
               Diag("note_matching", "do")>>
  /\ ControlFlowStack = <<>>
  /\ Len(stmts) = 3
  /\ stmts[1].term = 3 /\ stmts[2].term = 0

\* --------------------------------------------- properties: the GOTO family
\* The statement that slot k of GOTO g points to; 0 when unresolved.
Target(g, k) ==
  IF stmts[g].kind = "Goto" THEN stmts[g].dest ELSE stmts[g].slots[k]

\* The pending requests for slot k of g.
Requests(g, k) ==
  {i \in DOMAIN ForwardStmtLabelDeclsInScope :
     ForwardStmtLabelDeclsInScope[i] =
       ForwardDecl(stmts[g].refs[k], g,
                   IF stmts[g].kind = "Goto" THEN 0 ELSE k)}

\* C18 as stated: in a body, for every GOTO, assigned GOTO and computed GOTO
\* and each label it references: if the label is declared the reference
\* points to the declaring statement, that statement is marked as used as a
\* GOTO target and no request is pending for the reference; if not, the
\* reference is unresolved and exactly one request is pending for it.
C18_GotoTargetsMarked ==
  phase = "body" =>
    \A g \in Ids :
      stmts[g].kind \in {"Goto", "AssignedGoto", "ComputedGoto"} =>
        \A k \in DOMAIN stmts[g].refs :
          IF IsDeclared(stmts[g].refs[k])
          THEN /\ Target(g, k) = Resolve(Cur, stmts[g].refs[k])
               /\ stmts[Target(g, k)].usedAsGotoTarget
               /\ Requests(g, k) = {}
          ELSE /\ Target(g, k) = 0
               /\ Cardinality(Requests(g, k)) = 1

\* ----------------------------------------------------- properties: RETURN
\* C19: a RETURN statement in a main program reports err_stmt_not_in_func
\* once and nothing else, yields the error marker, and leaves the nodes, the
\* body, the label table, the pending list and the stack as they were.  In a
\* subprogram it builds exactly one node, a ReturnStmt, appends it, and its
\* label, if any, is declared afterwards: to the new statement when it was not
\* declared before.
C19_Return ==
  [][(last'.op = "stmt" /\ last'.form.tok = "kw_RETURN") =>
       IF unit = "program"
       THEN /\ last'.Invalid
            /\ Diags' = <<Diag("err_stmt_not_in_func", "RETURN")>>
            /\ stmts' = stmts
            /\ StmtList' = StmtList
            /\ StmtLabelDeclsInScope' = StmtLabelDeclsInScope
            /\ ForwardStmtLabelDeclsInScope' = ForwardStmtLabelDeclsInScope
            /\ ControlFlowStack' = ControlFlowStack
       ELSE /\ ~last'.Invalid
            /\ Built = {last'.Result}
            /\ \A S \in Built :
                 /\ stmts'[S].kind = "Return"
                 /\ StmtList' = Append(StmtList, S)
                 /\ \A L \in Labels :
                      last'.form.label = L
                      => /\ stmts'[S].label = L
                         /\ IsDeclared(L)'
                         /\ ~IsDeclared(L) => Resolve(Cur, L)' = S]_vars

\* In a main program a RETURN labeled 1 has been rejected while a DO awaits
\* label 1: the DO is still open and its request still pending.
C19_Witness ==
  /\ unit = "program"
  /\ last.op = "stmt" /\ last.Invalid
  /\ last.form = Labeled("kw_RETURN", 1)
  /\ Diags = <<Diag("err_stmt_not_in_func", "RETURN")>>
  /\ ControlFlowStack = <<Entry(1, 1)>>
  /\ ~IsDeclared(1)
  /\ Len(ForwardStmtLabelDeclsInScope) = 1
  /\ Len(stmts) = 1

\* In a subprogram a RETURN labeled 1 has ended the DO awaiting label 1.
C19_WitnessInside ==
  /\ unit = "subroutine"
  /\ last.op = "stmt" /\ ~last.Invalid
  /\ last.form = Labeled("kw_RETURN", 1)
  /\ stmts[last.Result].kind = "Return"
  /\ InBody(last.Result)
  /\ Resolve(Cur, 1) = last.Result

\* --------------------------------------------- properties: loop variables
\* The DO entries of the stack whose DO variable is v.
DoEntriesOf(v) ==
  {I \in DOMAIN ControlFlowStack :
     /\ stmts[ControlFlowStack[I].Statement].kind = "Do"
     /\ stmts[ControlFlowStack[I].Statement].doVar = v}

LinkOf(n, k) ==
  CASE n.kind \in {"Goto", "Assign"} -> n.dest
    [] n.kind = "Do" -> n.term
    [] OTHER -> n.slots[k]

\* The pending requests that would patch link k of statement g.
PendingLink(g, k) ==
  {i \in DOMAIN ForwardStmtLabelDeclsInScope :
     /\ ForwardStmtLabelDeclsInScope[i].Statement = g
     /\ stmts[g].kind \in {"AssignedGoto", "ComputedGoto"}
          => ForwardStmtLabelDeclsInScope[i].ResolveCallbackData = k}

\* C22: in every step of a body, a link of an existing statement that is set
\* keeps its value, the writes to an existing statement number the links that
\* go from unset to set, a statement built by the step is written once per
\* link that was undeclared and is now set, and afterwards no set link has a
\* pending request: so each link is written at most once after creation, and
\* a DO whose terminator was attached by the matching labeled statement is
\* not patched again by the resolution of forward references.
C22_LinksWrittenOnce ==
  [][last'.op = "stmt" =>
       /\ \A g \in Ids : \A k \in DOMAIN stmts[g].refs :
            LinkOf(stmts[g], k) # 0
              => LinkOf(stmts'[g], k) = LinkOf(stmts[g], k)
       /\ \A g \in Ids :
            stmts'[g].patched - stmts[g].patched =
              Cardinality({k \in DOMAIN stmts[g].refs :
                             /\ LinkOf(stmts[g], k) = 0
                             /\ LinkOf(stmts'[g], k) # 0})
       /\ \A g \in Built :
            stmts'[g].patched =
              Cardinality({k \in DOMAIN stmts'[g].refs :
                             /\ ~IsDeclared(stmts'[g].refs[k])
                             /\ LinkOf(stmts'[g], k) # 0})
       /\ \A g \in 1..Len(stmts') : \A k \in DOMAIN stmts'[g].refs :
            LinkOf(stmts'[g], k) # 0 => PendingLink(g, k)' = {}]_vars

\* DO 1 and GO TO (2, 1) are open and pending, then 1 CONTINUE: the DO got its
\* terminator from the labeled statement, the GOTO its second slot from the
\* resolution, each by one write, and the request for label 2 is pending.
C22_Witness ==
  /\ last.op = "stmt" /\ last.form.tok = "kw_CONTINUE"
  /\ Len(stmts) = 3
  /\ stmts[1].kind = "Do" /\ stmts[1].term = 3 /\ stmts[1].patched = 1
  /\ stmts[2].kind = "ComputedGoto" /\ stmts[2].slots = <<0, 3>>
  /\ stmts[2].patched = 1
  /\ stmts[3].label = 1
  /\ ControlFlowStack = <<>>
  /\ Len(ForwardStmtLabelDeclsInScope) = 1

\* ------------------------------------------------- properties: the routing
\* The Semantic Action of the kind of a well-formed statement.
ActionOf(f) ==
  IF f.nextEq THEN "ActOnAssignmentStmt"
  ELSE
    CASE f.tok = "kw_ASSIGN" -> "ActOnAssignStmt"
      [] f.tok = "kw_GOTO" ->
           IF f.dest # 0 THEN "ActOnGotoStmt"
           ELSE IF f.var # 0 THEN "ActOnAssignedGotoStmt"
           ELSE "ActOnComputedGotoStmt"
      [] f.tok = "kw_IF" -> "ActOnIfStmt"
      [] f.tok = "kw_ELSEIF" -> "ActOnElseIfStmt"
      [] f.tok = "kw_ELSE" -> "ActOnElseStmt"
      [] f.tok = "kw_ENDIF" -> "ActOnEndIfStmt"
      [] f.tok = "kw_DO" -> "ActOnDoStmt"
      [] f.tok = "kw_DOWHILE" -> "ActOnDoWhileStmt"
      [] f.tok = "kw_ENDDO" -> "ActOnEndDoStmt"
      [] f.tok = "kw_CYCLE" -> "ActOnCycleStmt"
      [] f.tok = "kw_EXIT" -> "ActOnExitStmt"
      [] f.tok = "kw_CONTINUE" -> "ActOnContinueStmt"
      [] f.tok = "kw_STOP" -> "ActOnStopStmt"
      [] f.tok = "kw_RETURN" -> "ActOnReturnStmt"
      [] f.tok = "kw_CALL" -> "ActOnCallStmt"
      [] OTHER -> "none"

\* C23 as stated: the parse of a well-formed statement of any kind invokes
\* the Semantic Action of that kind, first and (but for the action statement
\* and the closing of a single-line IF) only; CYCLE and EXIT reach
\* ActOnCycleStmt and ActOnExitStmt, and a token followed by '=' is parsed as
\* an assignment.
C23_EveryKindRouted ==
  (last.op = "stmt" /\ last.form \in KindForms) =>
    /\ Len(Actions) >= 1
    /\ Actions[1] = ActionOf(last.form)
    /\ last.form.then = <<>> => Len(Actions) = 1

C24_WitnessNested ==
  /\ last.op = "stmt" /\ last.form = DoForm(0, 1, 1)
  /\ Len(ControlFlowStack) = 2
  /\ ControlFlowStack[1].ExpectedEndDoLabel = 0
  /\ ControlFlowStack[2] = Entry(Len(stmts), 1)
  /\ Len(ForwardStmtLabelDeclsInScope) = 2
  /\ CopiesIn(1, LoopVars) = 2

\* ------------------------------------------------------ properties: END DO
\* What is reported for an entry left open, and the note that follows it.
ExpectedCloser(e) ==
  IF stmts[e.Statement].kind = "If" THEN EndIfExpected ELSE Unterminated(e)

MatchingNote(e) ==
  Diag("note_matching", IF stmts[e.Statement].kind = "If" THEN "if" ELSE "do")

\* The DO entries of variable v among the entries I of the stack with I >= K.
DoEntriesFrom(K, v) ==
  {I \in DOMAIN ControlFlowStack :
     /\ I >= K
     /\ stmts[ControlFlowStack[I].Statement].kind = "Do"
     /\ stmts[ControlFlowStack[I].Statement].doVar = v}

\* C25: an unlabeled END DO matches the innermost entry K that is a DO WHILE
\* or a DO without an expected label, never a DO awaiting a label: the
\* entries above K are reported as unterminated, top down, and popped, then K
\* is popped, and the variable of every DO popped is released; nothing else
\* is reported.  With no such entry the whole stack is reported and emptied
\* and err_end_do_without_do is reported once, last.
C25_EndDo ==
  [][(/\ last'.op = "stmt"
      /\ last'.form.tok = "kw_ENDDO"
      /\ last'.form.bad = "none"
      /\ last'.form.label = 0)
     => LET K == InnermostLoop
            n == Len(ControlFlowStack) IN
        /\ Len(Diags') >= 2 * (n - K)
        /\ \A j \in 1..(n - K) :
             /\ Diags'[2 * j - 1] = ExpectedCloser(ControlFlowStack[n + 1 - j])
             /\ Diags'[2 * j] = MatchingNote(ControlFlowStack[n + 1 - j])
        /\ ControlFlowStack' = SubSeq(ControlFlowStack, 1, K - 1)
        /\ \A v \in DoVars :
             CopiesIn(v, LoopVars) - CopiesIn(v, LoopVars')
               = Cardinality(DoEntriesFrom(K, v))
        /\ IF K # 0
           THEN Len(Diags') = 2 * (n - K)
           ELSE /\ Len(Diags') = 2 * n + 1
                /\ Diags'[2 * n + 1] = Diag("err_end_do_without_do", "")]_vars

\* END DO has closed a DO without a terminal label in which an IF block and,
\* inside it, a DO awaiting label 1 were open.
C25_Witness ==
  /\ last.op = "stmt" /\ last.form.tok = "kw_ENDDO"
  /\ Len(stmts) = 4
  /\ stmts[1].kind = "Do" /\ stmts[1].refs = <<>>
  /\ stmts[2].kind = "If"
  /\ stmts[3].kind = "Do" /\ stmts[3].refs = <<1>>
  /\ ControlFlowStack = <<>>
  /\ LoopVars = EmptyBag
  /\ Len(Diags) = 4
  /\ Count(Diags, "err_end_do_without_do") = 0

\* END DO has found only DOs awaiting a label and an IF block: all are left.
C25_WitnessWithoutDo ==
  /\ last.op = "stmt" /\ last.form.tok = "kw_ENDDO"
  /\ Len(stmts) = 4
  /\ stmts[1].kind = "Do" /\ stmts[1].refs = <<1>>
  /\ stmts[2].kind = "If"
  /\ stmts[3].kind = "Do" /\ stmts[3].refs = <<2>>
  /\ ControlFlowStack = <<>>
  /\ LoopVars = EmptyBag
  /\ Len(Diags) = 7
  /\ Count(Diags, "err_end_do_without_do") = 1

MultiSlot == {"AssignedGoto", "ComputedGoto"}

\* The pending requests of statement g for slot k.
SlotRequests(g, k) ==
  {i \in DOMAIN ForwardStmtLabelDeclsInScope :
     /\ ForwardStmtLabelDeclsInScope[i].Statement = g
     /\ ForwardStmtLabelDeclsInScope[i].ResolveCallbackData = k}

\* C27: in every step of a body, a slot of an existing assigned or computed
\* GOTO changes only if a request for that statement and that slot index was
\* pending under the label the step declares, and then becomes the declaring
\* statement; every other slot keeps its value.  An unlabeled assigned or
\* computed GOTO built by the step has, for every slot whose label was
\* declared, the declaring statement and no request, and for every other
\* slot no target and exactly one request, which names the slot's label; it
\* has as many requests as unresolved slots.
C27_SlotsPatchedByIndex ==
  [][last'.op = "stmt" =>
       /\ \A g \in Ids : stmts[g].kind \in MultiSlot =>
            /\ DOMAIN stmts'[g].slots = DOMAIN stmts[g].slots
            /\ \A k \in DOMAIN stmts[g].slots :
                 IF \E i \in SlotRequests(g, k) :
                      /\ ForwardStmtLabelDeclsInScope[i].StmtLabel
                           = last'.form.label
                      /\ ~IsDeclared(last'.form.label)
                 THEN /\ stmts'[g].slots[k] = last'.Result
                      /\ SlotRequests(g, k)' = {}
                 ELSE /\ stmts'[g].slots[k] = stmts[g].slots[k]
                      /\ Cardinality(SlotRequests(g, k)')
                           = Cardinality(SlotRequests(g, k))
       /\ \A g \in Built :
            (stmts'[g].kind \in MultiSlot /\ stmts'[g].label = 0) =>
              /\ DOMAIN stmts'[g].slots = DOMAIN stmts'[g].refs
              /\ \A k \in DOMAIN stmts'[g].refs :
                   IF IsDeclared(stmts'[g].refs[k])
                   THEN /\ stmts'[g].slots[k] = Resolve(Cur, stmts'[g].refs[k])
                        /\ SlotRequests(g, k)' = {}
                   ELSE /\ stmts'[g].slots[k] = 0
                        /\ \E i \in DOMAIN ForwardStmtLabelDeclsInScope' :
                             /\ SlotRequests(g, k)' = {i}
                             /\ ForwardStmtLabelDeclsInScope'[i].StmtLabel
                                  = stmts'[g].refs[k]
              /\ Len(SelectSeq(ForwardStmtLabelDeclsInScope',
                               LAMBDA r : r.Statement = g))
                   = Cardinality({k \in DOMAIN stmts'[g].refs :
                                    ~IsDeclared(stmts'[g].refs[k])})]_vars

\* GO TO (2, 1), I and GO TO I (1, 2) were pending with two requests each;
\* 1 CONTINUE has patched the second slot of the first and the first slot of
\* the second, and the two requests for label 2 are still pending.
C27_Witness ==
  /\ last.op = "stmt" /\ last.form = Labeled("kw_CONTINUE", 1)
  /\ Len(stmts) = 3
  /\ stmts[1].kind = "ComputedGoto" /\ stmts[1].refs = <<2, 1>>
  /\ stmts[1].slots = <<0, 3>>
  /\ stmts[2].kind = "AssignedGoto" /\ stmts[2].refs = <<1, 2>>
  /\ stmts[2].slots = <<3, 0>>
  /\ ForwardStmtLabelDeclsInScope
       = <<ForwardDecl(2, 1, 1), ForwardDecl(2, 2, 2)>>

\* 1 CONTINUE, then a computed GOTO (2, 1): one request, for the first slot.
C27_WitnessCreation ==
  /\ last.op = "stmt" /\ last.form.tok = "kw_GOTO"
  /\ Len(stmts) = 2
  /\ stmts[1].label = 1
  /\ stmts[2].kind = "ComputedGoto" /\ stmts[2].refs = <<2, 1>>
  /\ stmts[2].slots = <<0, 1>>
  /\ ForwardStmtLabelDeclsInScope = <<ForwardDecl(2, 2, 1)>>

\* ------------------------------------- properties: declared versus pending
\* C28: in every state, no request of the pending list names a label that is
\* declared in the label table.
C28_PendingUndeclared ==
  \A i \in DOMAIN ForwardStmtLabelDeclsInScope :
    ~IsDeclared(ForwardStmtLabelDeclsInScope[i].StmtLabel)

\* GO TO 1 and GO TO I (1, 2) were pending; 1 CONTINUE has declared label 1,
\* patched both and removed their requests for 1 in its own step; the request
\* for label 2 stays.
C28_Witness ==
  /\ last.op = "stmt" /\ last.form = Labeled("kw_CONTINUE", 1)
  /\ Len(stmts) = 3
  /\ stmts[1].kind = "Goto" /\ stmts[1].dest = 3
  /\ stmts[2].kind = "AssignedGoto" /\ stmts[2].slots = <<3, 0>>
  /\ StmtLabelDeclsInScope = {[Key |-> 1, Statement |-> 3]}
  /\ ForwardStmtLabelDeclsInScope = <<ForwardDecl(2, 2, 2)>>

\* ------------------------------------- properties: documented terminators
\* The kinds the comment on DO terminal statements excludes, as far as the
\* statements of the body go: unconditional and assigned GO TO, block IF and
\* ELSE IF, ELSE and END IF, RETURN, STOP, DO.
DocumentedInadmissible(S, f) ==
  \/ S.kind \in {"Goto", "AssignedGoto", "Return", "Stop", "Do"}
  \/ S.kind = "If" /\ f.hasThen
  \/ S.kind = "ConstructPart" /\ S.part \in {"Else", "EndIf"}

\* C29 as stated: when a well-formed statement of one of those kinds carries
\* the label L, not declared before, that a DO on the stack awaits (for ELSE
\* IF, ELSE and END IF: a DO below the IF block they belong to, which their
\* unwinding leaves open), the step reports err_invalid_do_terminating_stmt
\* once.
C29_DocumentedTerminators ==
  [][\A L \in Labels, S \in Built :
       (/\ last'.op = "stmt" /\ ~last'.Invalid /\ last'.Result = S
        /\ ~Defective(last'.form)
        /\ stmts'[S].label = L
        /\ ~IsDeclared(L)
        /\ AwaitingIndex(L) # 0
        /\ last'.form.tok \in Closers => AwaitingIndex(L) < InnermostIf
        /\ DocumentedInadmissible(stmts'[S], last'.form))
       => Count(Diags', "err_invalid_do_terminating_stmt") = 1]_vars

\* --------------------------------- properties: the IF that ends a DO loop
\* C30 as stated: when a well-formed IF without THEN, whose action statement
\* is an assignment or a CONTINUE, carries the label L, not declared before,
\* that a DO on the stack awaits, the step reports no
\* err_invalid_do_terminating_stmt and leaves the stack cut below the
\* innermost DO awaiting L.
C30_LogicalIfTerminator ==
  [][\A L \in Labels :
       (/\ last'.op = "stmt"
        /\ IsLogicalIf(last'.form) /\ ~Defective(last'.form)
        /\ last'.form.then[1].tok \in {"identifier", "kw_CONTINUE"}
        /\ last'.form.label = L
        /\ ~IsDeclared(L)
        /\ AwaitingIndex(L) # 0)
       => /\ Count(Diags', "err_invalid_do_terminating_stmt") = 0
          /\ ControlFlowStack' =
               SubSeq(ControlFlowStack, 1, AwaitingIndex(L) - 1)]_vars

\* ------------------------------- properties: a DO to a label declared before
\* C31: a well-formed DO statement whose terminal label is declared reports
\* err_stmt_label_must_decl_after and a note at the earlier declaration and
\* nothing else, yields the error marker, and leaves the nodes, the body, the
\* stack, the label table (the DO's own label stays undeclared), the pending
\* list and the active loop variables as they were.
C31_DoToDeclaredLabel ==
  [][\A f \in {last'.form} :
       (/\ last'.op = "stmt" /\ f.tok = "kw_DO" /\ f.bad = "none" /\ ~f.nextEq
        /\ f.term # 0 /\ IsDeclared(f.term))
       => /\ last'.Invalid /\ last'.Result = 0
          /\ Diags' = <<Diag("err_stmt_label_must_decl_after", ToString(f.term)),
                        Diag("note_previous_definition",
                             ToString(Resolve(Cur, f.term)))>>
          /\ stmts' = stmts
          /\ StmtList' = StmtList
          /\ ControlFlowStack' = ControlFlowStack
          /\ StmtLabelDeclsInScope' = StmtLabelDeclsInScope
          /\ ForwardStmtLabelDeclsInScope' = ForwardStmtLabelDeclsInScope
          /\ LoopVars' = LoopVars]_vars

\* Inside an open DO with a request pending, 2 CONTINUE was parsed and then
\* 1 DO 2: rejected, label 1 is not declared, the open DO and its request stay.
C31_Witness ==
  /\ last.op = "stmt" /\ last.form = DoForm(1, 2, 1)
  /\ last.Invalid
  /\ Len(Diags) = 2
  /\ IsDeclared(2) /\ ~IsDeclared(1)
  /\ Len(ControlFlowStack) = 1
  /\ Len(ForwardStmtLabelDeclsInScope) = 1
  /\ CopiesIn(1, LoopVars) = 1

\* ------------------------------- properties: the stack across a logical IF
\* C32 as stated: a step that parses a well-formed IF without THEN, whose
\* label (if any) no DO on the stack awaits, leaves the open-construct stack
\* as it was, whatever the kind of its action statement.
C32_LogicalIfKeepsStack ==
  [][(/\ last'.op = "stmt"
      /\ IsLogicalIf(last'.form) /\ ~Defective(last'.form)
      /\ AwaitingIndex(last'.form.label) = 0)
     => ControlFlowStack' = ControlFlowStack]_vars

\* -------------------------- properties: several DOs awaiting one label
\* The entries of the stack that are DOs awaiting label L.
AwaitingEntries(L) ==
  {I \in DOMAIN ControlFlowStack :
     /\ stmts[ControlFlowStack[I].Statement].kind = "Do"
     /\ ControlFlowStack[I].ExpectedEndDoLabel = L}

\* A GOTO, CONTINUE or assignment that carries label L, not declared before,
\* is built while at least two DOs on the stack await L.
SharedTerminator(L, S) ==
  /\ last'.op = "stmt" /\ ~last'.Invalid /\ last'.Result = S
  /\ last'.form.tok \in PlainTokens /\ last'.form.bad = "none"
  /\ stmts'[S].label = L
  /\ ~IsDeclared(L)
  /\ Cardinality(AwaitingEntries(L)) >= 2

C34_UnwindingKeepsLabels ==
  [][(last'.op = "stmt" /\ last'.form.bad = "none") =>
       /\ (last'.form.tok \in BlockClosers /\ last'.form.label = 0) =>
            /\ StmtLabelDeclsInScope' = StmtLabelDeclsInScope
            /\ ForwardStmtLabelDeclsInScope' = ForwardStmtLabelDeclsInScope
       /\ \A L \in Labels :
            (/\ last'.form.tok \in {"kw_CONTINUE", "identifier"}
             /\ last'.form.label = L
             /\ ~IsDeclared(L)
             /\ AwaitingIndex(L) # 0)
            => /\ StmtLabelDeclsInScope' = StmtLabelDeclsInScope
                    \cup {[Key |-> GetStmtLabelValue(L),
                           Statement |-> last'.Result]}
               /\ ForwardStmtLabelDeclsInScope' =
                    SelectSeq(ForwardStmtLabelDeclsInScope,
                              LAMBDA r : r.StmtLabel # L)
               /\ \A D \in {ControlFlowStack[AwaitingIndex(L)].Statement} :
                    PendingLink(D, 1)' = {}
               /\ \A I \in DOMAIN ControlFlowStack :
                    (/\ I > AwaitingIndex(L)
                     /\ stmts[ControlFlowStack[I].Statement].kind = "Do"
                     /\ ControlFlowStack[I].ExpectedEndDoLabel # 0)
                    => \A D \in {ControlFlowStack[I].Statement} :
                         /\ stmts'[D].term = 0
                         /\ Cardinality(PendingLink(D, 1)') = 1]_vars

\* DO 1, DO 2, then 1 CONTINUE: the DO awaiting 2 was left by the unwinding
\* and its request is still pending; the DO awaiting 1 was matched.
C34_Witness ==
  /\ last.op = "stmt" /\ last.form = Labeled("kw_CONTINUE", 1)
  /\ Len(stmts) = 3
  /\ stmts[1].kind = "Do" /\ stmts[1].refs = <<1>> /\ stmts[1].term = 3
  /\ stmts[2].kind = "Do" /\ stmts[2].refs = <<2>> /\ stmts[2].term = 0
  /\ ControlFlowStack = <<>>
  /\ ForwardStmtLabelDeclsInScope = <<ForwardDecl(2, 2, 0)>>

\* IF THEN, DO 1, then END IF: the DO was left and its request is pending.
C34_WitnessEndIf ==
  /\ last.op = "stmt" /\ last.form.tok = "kw_ENDIF"
  /\ Len(stmts) = 3
  /\ stmts[1].kind = "If"
  /\ stmts[2].kind = "Do" /\ stmts[2].term = 0
  /\ ControlFlowStack = <<>>
  /\ StmtLabelDeclsInScope = {}
  /\ ForwardStmtLabelDeclsInScope = <<ForwardDecl(1, 2, 0)>>

\* ------------------------------------------------ properties: label slots
SlotKinds == {"Goto", "Assign", "AssignedGoto", "ComputedGoto"}

\* The pending entries (label, owning statement, slot index) of slot k of
\* statement g; a GOTO and an ASSIGN have one slot and no slot index.
SlotEntries(g, k) ==
  {i \in DOMAIN ForwardStmtLabelDeclsInScope :
     ForwardStmtLabelDeclsInScope[i] =
       ForwardDecl(stmts[g].refs[k], g,
                   IF stmts[g].kind \in MultiSlot THEN k ELSE 0)}

\* Slot k of g holds a statement and has no entry, or holds none and has
\* exactly one entry.
SlotSettled(g, k) ==
  \/ /\ LinkOf(stmts[g], k) # 0
     /\ PendingLink(g, k) = {}
  \/ /\ LinkOf(stmts[g], k) = 0
     /\ Cardinality(SlotEntries(g, k)) = 1
     /\ PendingLink(g, k) = SlotEntries(g, k)

\* C35 as stated: in every state, every label slot of every GOTO, ASSIGN,
\* assigned GOTO and computed GOTO built either holds a resolved statement
\* or has exactly one pending entry, never both and never neither.
C35_SlotSettledAlways ==
  \A g \in Ids :
    stmts[g].kind \in SlotKinds =>
      \A k \in DOMAIN stmts[g].refs : SlotSettled(g, k)

\* C35: while the body of a unit is being built, every label slot of every
\* GOTO, ASSIGN, assigned GOTO and computed GOTO either holds a resolved
\* statement and has no pending entry, or holds none and has exactly one
\* pending entry, which names the slot's label, its statement and its index;
\* a resolved slot holds the statement that declares its label.  After the
\* end of the unit the pending list is empty, and a slot whose label was
\* never declared holds no statement.
C35_SlotSettledInBody ==
  /\ phase = "body" =>
       \A g \in Ids :
         stmts[g].kind \in SlotKinds =>
           \A k \in DOMAIN stmts[g].refs :
             /\ SlotSettled(g, k)
             /\ LinkOf(stmts[g], k) # 0
                  => LinkOf(stmts[g], k) = Resolve(Cur, stmts[g].refs[k])
  /\ (phase = "done" /\ last.op = "end") =>
       /\ ForwardStmtLabelDeclsInScope = <<>>
       /\ \A g \in Ids :
            stmts[g].kind \in SlotKinds =>
              \A k \in DOMAIN stmts[g].refs :
                LinkOf(stmts[g], k) # 0 => stmts[LinkOf(stmts[g], k)].label
                                            = stmts[g].refs[k]

\* In a body: ASSIGN 2 is pending, GO TO I (1, 2) has its first slot
\* resolved by the CONTINUE labeled 1 and its second slot pending.
C35_Witness ==
  /\ phase = "body"
  /\ Len(stmts) = 3
  /\ stmts[1].kind = "Assign" /\ stmts[1].refs = <<2>> /\ stmts[1].dest = 0
  /\ stmts[2].kind = "AssignedGoto" /\ stmts[2].slots = <<3, 0>>
  /\ stmts[3].label = 1
  /\ ForwardStmtLabelDeclsInScope =
       <<ForwardDecl(2, 1, 0), ForwardDecl(2, 2, 2)>>

\* The unit has ended with the GOTO's label never declared.
C35_WitnessEnd ==
  /\ phase = "done" /\ last.op = "end"
  /\ Len(stmts) = 1
  /\ stmts[1].kind = "Goto" /\ stmts[1].dest = 0
  /\ ForwardStmtLabelDeclsInScope = <<>>
  /\ Count(Diags, "err_undeclared_stmt_label_use") = 1

\* --------------------------------- properties: append before declaration
\* The statements of the entries of a stack, bottom first.
StatementsOf(stack) == [I \in DOMAIN stack |-> stack[I].Statement]

\* C36 as stated, the part about DO terminators: every DO that was open and
\* gets the statement of the step as its terminator was open when that
\* statement was appended.
C36_TerminatorInsideDo ==
  [][(last'.op = "stmt" /\ Built # {}) =>
       \A S \in {Len(stmts) + 1} :
         InBody(S)' =>
           \A D \in Ids :
             (/\ stmts[D].kind = "Do"
              /\ OnStack(D)
              /\ stmts[D].term = 0
              /\ stmts'[D].term = S)
             => \E I \in DOMAIN stmts'[S].openAt :
                  stmts'[S].openAt[I] = D]_vars

\* C36: the first statement a step builds and appends was appended on the
\* stack as the step found it, before its label was declared, unless it is
\* an ELSE, END IF or END DO, which unwinds first: then it was appended on a
\* prefix of that stack.  So every DO that was open and gets the statement
\* as its terminator in the step, the DO closed by it included, was open when
\* the statement was appended, unless the statement is an ELSE, END IF or
\* END DO whose own unwinding had left that DO, reported as unterminated,
\* before the append; and an END IF or END DO that matched a construct was
\* appended with that construct innermost, and the construct is popped by
\* the end of the step.
C36_AppendBeforeDeclare ==
  [][(last'.op = "stmt" /\ Built # {}) =>
       \A S \in {Len(stmts) + 1} :
         InBody(S)' =>
           /\ \A f \in {last'.form} :
                IF f.tok \in BlockClosers
                THEN /\ Len(stmts'[S].openAt) <= Len(ControlFlowStack)
                     /\ stmts'[S].openAt =
                          SubSeq(StatementsOf(ControlFlowStack), 1,
                                 Len(stmts'[S].openAt))
                ELSE stmts'[S].openAt = StatementsOf(ControlFlowStack)
           /\ \A D \in Ids :
                (/\ stmts[D].kind = "Do"
                 /\ OnStack(D)
                 /\ stmts[D].term = 0
                 /\ stmts'[D].term = S)
                => \/ \E I \in DOMAIN stmts'[S].openAt :
                        stmts'[S].openAt[I] = D
                   \/ /\ last'.form.tok \in BlockClosers
                      /\ Count(Diags', "err_expected_stmt_label_end_do") > 0
           /\ \A f \in {last'.form} :
                (/\ f.tok \in {"kw_ENDIF", "kw_ENDDO"}
                 /\ Count(Diags', "err_stmt_not_in_if") = 0
                 /\ Count(Diags', "err_end_do_without_do") = 0)
                => /\ stmts'[S].openAt # <<>>
                   /\ \A B \in {stmts'[S].openAt[Len(stmts'[S].openAt)]} :
                        /\ OnStack(B)
                        /\ ~OnStack(B)'
                        /\ stmts[B].kind =
                             (IF f.tok = "kw_ENDIF" THEN "If"
                              ELSE stmts[B].kind)
                        /\ f.tok = "kw_ENDDO"
                             => stmts[B].kind \in {"Do", "DoWhile"}]_vars

\* DO 1, IF THEN, then 1 CONTINUE: the CONTINUE was appended inside the IF
\* block inside the DO, and the declaration of its label left both.
C36_Witness ==
  /\ last.op = "stmt" /\ last.form = Labeled("kw_CONTINUE", 1)
  /\ Len(stmts) = 3
  /\ stmts[1].kind = "Do" /\ stmts[1].term = 3
  /\ stmts[2].kind = "If"
  /\ stmts[3].openAt = <<1, 2>>
  /\ InBody(3)
  /\ ControlFlowStack = <<>>

\* DO, then END DO: the part was appended inside the loop it closes.
C36_WitnessEndDo ==
  /\ last.op = "stmt" /\ last.form.tok = "kw_ENDDO"
  /\ Len(stmts) = 2
  /\ stmts[1].kind = "Do"
  /\ stmts[2].part = "EndDo" /\ stmts[2].openAt = <<1>>
  /\ ControlFlowStack = <<>>


\* -------------------------------------------------- properties: label keys
\* The label values written in the unit, as statement labels or references.
LabelsWritten ==
  ({stmts[g].label : g \in Ids}
     \cup UNION {{stmts[g].refs[k] : k \in DOMAIN stmts[g].refs} : g \in Ids})
  \ {0}

\* C37 as stated: two label values written in a unit have the same key only
\* if they are equal, values at or above the largest key included; so a
\* resolved GOTO points to a statement that carries the label value it
\* names, and the first statement that carries a label value declares it.
C37_KeyInjective ==
  /\ \A a, b \in LabelsWritten :
       GetStmtLabelValue(a) = GetStmtLabelValue(b) <=> a = b
  /\ \A g \in Ids :
       (stmts[g].kind = "Goto" /\ stmts[g].dest # 0)
       => stmts[stmts[g].dest].label = stmts[g].refs[1]
  /\ \A g \in Ids :
       (/\ stmts[g].label # 0
        /\ \A h \in 1..(g - 1) : stmts[h].label # stmts[g].label)
       => Resolve(Cur, stmts[g].label) = g

====
